---- MODULE Spec2Model ----
(***************************************************************************)
(* The concourse cfssl resources (root CA, intermediate CA, leaf): the     *)
(* Check / In / Out lifecycle functions of lib/concourse.py, the older     *)
(* root CA implementation of lib/root_ca.py, and the collaborators they    *)
(* drive: the S3 object store (boto3) and the cfssl command line tool.     *)
(*                                                                         *)
(* Every invocation is one process.  An invocation is modelled as a        *)
(* sequence of steps, one step per call that reaches the object store,     *)
(* with the local computation that follows the call folded into the step.  *)
(* Strings are TLA+ strings; file bodies, checksums and versions are       *)
(* strings.                                                                *)
(***************************************************************************)
EXTENDS Integers, Sequences, FiniteSets, TLC

\* Number of invocations that may run against the same bucket.
MaxInv == 2

\* The longest hex string, the longest list of strings and the longest host
\* list the library functions are applied to.
MaxHexLen == 2

MaxList == 2

MaxHosts == 2

Inv == 1..MaxInv

(***************************************************************************)
(* Constants of lib/concourse.py and lib/root_ca.py                        *)
(***************************************************************************)
CHECKSUM_METADATA_KEY_NAME == "sha256"

ROOT_CA_FILE_PREFIX == "root-ca"
\* The private key's file name where the certificate's is meant.
ROOT_CA_KEY_AS_CERTIFICATE_FILE_NAME == ROOT_CA_FILE_PREFIX \o "-key.pem"

ROOT_CA_CERTIFICATE_FILE_NAME == ROOT_CA_FILE_PREFIX \o ".pem"
ROOT_CA_PRIVATE_KEY_FILE_NAME == ROOT_CA_FILE_PREFIX \o "-key.pem"

INTERMEDIATE_CA_FILE_PREFIX == "intermediate-ca"
INTERMEDIATE_CA_CERTIFICATE_FILE_NAME == INTERMEDIATE_CA_FILE_PREFIX \o ".pem"
INTERMEDIATE_CA_PRIVATE_KEY_FILE_NAME == INTERMEDIATE_CA_FILE_PREFIX \o "-key.pem"

CA_SUBDIR == "ca"

\* lib/root_ca.py
FILE_PREFIX == "root-ca"
CERT_FILE_NAME == FILE_PREFIX \o ".pem"
PRIVATE_KEY_FILE_NAME == FILE_PREFIX \o "-key.pem"

\* The leaf names a pipeline configures (source.leaf_name).
LeafNames == {"server"}

Levels == {"root", "intermediate", "leaf"}

\* A value that is not there: a missing dict key, a variable not yet bound.
Absent == "<absent>"

(***************************************************************************)
(* Hash functions.  hashlib.sha256(..).hexdigest() is modelled as a digest *)
(* without collisions: the digest of x is a string that determines x.      *)
(***************************************************************************)
Sha256HexDigest(bytes) == "sha256(" \o bytes \o ")"

RECURSIVE Join(_)
\* ''.join(string_list)
Join(string_list) ==
    IF string_list = <<>> THEN ""
    ELSE Head(string_list) \o Join(Tail(string_list))

\* The digest of the encoding's name, whatever the string.
hash_of_encoding_name(string) == Sha256HexDigest("utf-8")

concourse_hash_string(string) == Sha256HexDigest(string)

concourse_hash_list(string_list) == concourse_hash_string(Join(string_list))

\* _hash_file: the digest of the file's bytes, read in 64 KiB chunks
concourse_hash_file(body) == Sha256HexDigest(body)

\* The two checksums hashed in the other order.
keypair_checksum_swapped(certificate_checksum, private_key_checksum) ==
    concourse_hash_list(<<private_key_checksum, certificate_checksum>>)

\* The digest of the certificate's checksum alone.
keypair_checksum_of_certificate(certificate_checksum, private_key_checksum) ==
    concourse_hash_list(<<certificate_checksum>>)

get_keypair_checksum(certificate_checksum, private_key_checksum) ==
    concourse_hash_list(<<certificate_checksum, private_key_checksum>>)

\* lib/hash.py
hash_hash_string(string) == Sha256HexDigest(string)

\* The digest of the list's first string alone.
hash_list_of_first(string_list) ==
    hash_hash_string(IF string_list = <<>> THEN "" ELSE Head(string_list))

hash_hash_list(string_list) == hash_hash_string(Join(string_list))

hash_hash_file(body) == Sha256HexDigest(body)

\* lib/common.py: _hash_string encodes the type's name, str.encode('utf-8'),
\* which is b'utf-8' for every argument.
common_hash_string(string) == Sha256HexDigest("utf-8")

common_hash_list(string_list) == common_hash_string(Join(string_list))

(***************************************************************************)
(* The object store.  An object is absent, or holds a body and user        *)
(* metadata (a set of <<name, value>> pairs).                              *)
(***************************************************************************)
NoObject == [exists |-> FALSE, body |-> "", metadata |-> {}]

Object(body, metadata) == [exists |-> TRUE, body |-> body, metadata |-> metadata]

\* str.lower() on the metadata names that occur
Lower(name) ==
    CASE name = "Sha256" -> "sha256"
      [] name = "SHA256" -> "sha256"
      [] OTHER -> name

\* _format_s3_key_with_prefix with the configured prefix
SourcePrefix == "pki"

format_s3_key_with_prefix(prefix, key) ==
    IF prefix # "" THEN prefix \o "/" \o key ELSE key

\* _get_s3_object: the key of the object a file name stands for
get_s3_object(file_name) == format_s3_key_with_prefix(SourcePrefix, file_name)

CertificateFileName(file_prefix) == file_prefix \o ".pem"

PrivateKeyFileName(file_prefix) == file_prefix \o "-key.pem"

\* The file prefix of a level's bundle (leaf: source.leaf_name).
FilePrefix(level, leaf_name) ==
    CASE level = "root" -> ROOT_CA_FILE_PREFIX
      [] level = "intermediate" -> INTERMEDIATE_CA_FILE_PREFIX
      [] OTHER -> leaf_name

\* The level whose bundle signs a level's certificate.
ParentLevel(level) == IF level = "leaf" THEN "intermediate" ELSE "root"

FilePrefixes ==
    {ROOT_CA_FILE_PREFIX, INTERMEDIATE_CA_FILE_PREFIX} \cup LeafNames

FileNames ==
    {CertificateFileName(p) : p \in FilePrefixes}
        \cup {PrivateKeyFileName(p) : p \in FilePrefixes}

S3Keys == {get_s3_object(f) : f \in FileNames}


(***************************************************************************)
(* What the bucket may hold when an invocation starts.  Objects reach the  *)
(* bucket from outside as well (an operator's upload, a test's seed), so a *)
(* bundle may be absent, intact, tagged under another spelling of the      *)
(* metadata name, altered after it was tagged, or not tagged at all.       *)
(***************************************************************************)
SeedCertificate(file_prefix) == "cert:" \o file_prefix \o ":seed"

SeedPrivateKey(file_prefix) == "key:" \o file_prefix \o ":seed"

Tagged(name, body) == Object(body, {<<name, Sha256HexDigest(body)>>})

BundleStates(file_prefix) ==
    LET c == SeedCertificate(file_prefix)
        k == SeedPrivateKey(file_prefix)
    IN  { [cert |-> NoObject, key |-> NoObject],
          [cert |-> Tagged("sha256", c), key |-> Tagged("sha256", k)],
          [cert |-> Tagged("Sha256", c), key |-> Tagged("sha256", k)],
          [cert |-> Object(c \o "~", {<<"sha256", Sha256HexDigest(c)>>}),
           key |-> Tagged("sha256", k)],
          [cert |-> Tagged("sha256", c), key |-> Object(k, {})] }

\* The bucket that holds bundle b[p] under each file prefix p.
StoreOf(b) ==
    [key \in S3Keys |->
        LET p == CHOOSE q \in FilePrefixes :
                     key \in {get_s3_object(CertificateFileName(q)),
                              get_s3_object(PrivateKeyFileName(q))}
        IN  IF key = get_s3_object(CertificateFileName(p))
            THEN b[p].cert ELSE b[p].key]

\* A complete bundle whose tags are the hashes of its bodies.
IntactBundle(file_prefix) ==
    [cert |-> Tagged("sha256", SeedCertificate(file_prefix)),
     key |-> Tagged("sha256", SeedPrivateKey(file_prefix))]

\* The buckets an invocation may find: the empty one, and those in which at
\* most one level's bundle is other than intact.
InitialStores ==
    { StoreOf(b) :
        b \in {f \in [FilePrefixes -> UNION {BundleStates(q) : q \in FilePrefixes}] :
                  /\ \A q \in FilePrefixes : f[q] \in BundleStates(q)
                  /\ \/ \A q \in FilePrefixes : ~f[q].cert.exists
                     \/ Cardinality({q \in FilePrefixes :
                                        f[q] # IntactBundle(q)}) <= 1} }

(***************************************************************************)
(* Requests.  A JSON value is written as its JSON text ("true", "false");  *)
(* Absent stands for a key the object does not have.                       *)
(***************************************************************************)
NoParams ==
    [present |-> FALSE, save_certificate |-> Absent,
     save_private_key |-> Absent, save_root_ca_certificate |-> Absent,
     save_intermediate_ca_certificate |-> Absent,
     save_to_ca_subdir |-> Absent, action |-> Absent, CN |-> Absent]

Params(fields) ==
    LET V(name) == IF \E f \in fields : f[1] = name
                   THEN (CHOOSE f \in fields : f[1] = name)[2]
                   ELSE Absent
    IN  [present |-> TRUE, save_certificate |-> V("save_certificate"),
         save_private_key |-> V("save_private_key"),
         save_root_ca_certificate |-> V("save_root_ca_certificate"),
         save_intermediate_ca_certificate |->
             V("save_intermediate_ca_certificate"),
         save_to_ca_subdir |-> V("save_to_ca_subdir"),
         action |-> V("action"), CN |-> V("CN")]

InParamChoices(level) ==
    { NoParams,
      Params({}),
      Params({<<"save_certificate", "false">>, <<"save_private_key", "true">>}),
      Params({<<"save_certificate", "true">>, <<"save_private_key", "true">>}) }
    \cup
    (IF level = "leaf"
     THEN { Params({<<"save_private_key", "true">>,
                    <<"save_root_ca_certificate", "true">>,
                    <<"save_intermediate_ca_certificate", "true">>}),
            Params({<<"save_certificate", "false">>,
                    <<"save_root_ca_certificate", "true">>,
                    <<"save_intermediate_ca_certificate", "true">>,
                    <<"save_to_ca_subdir", "true">>}) }
     ELSE {})

OutParamChoices ==
    { NoParams,
      Params({<<"CN", "example">>}),
      Params({<<"action", "create">>, <<"CN", "example">>}),
      Params({<<"action", "renew">>}),
      Params({<<"action", "delete">>, <<"CN", "example">>}) }

\* The implementations: lib/concourse.py (all levels), lib/root_ca.py (root).
Impls(level) == IF level = "root" THEN {"concourse", "root_ca"} ELSE {"concourse"}

VARIABLES
    s3,      \* the bucket: key -> object
    pc,      \* each invocation's position
    req,     \* each invocation's request (stdin)
    loc,     \* each invocation's local variables
    files,   \* each invocation's destination directory: path -> body
    events,  \* each invocation's calls to the store, the cfssl tool and stdout
    out,     \* each invocation's standard output: the payloads written
    err,     \* the exception that ended the invocation
    input,   \* the arguments a library function is applied to
    result,  \* what the library function returned
    history  \* the writes to the bucket, in the order the bucket took them

vars == <<s3, pc, req, loc, files, events, out, err, input, result, history>>

libvars == <<input, result, history>>

NoError == [exc |-> "", msg |-> "", at |-> ""]

Exception(exc, msg, at) == [exc |-> exc, msg |-> msg, at |-> at]

NoRequest ==
    [op |-> "", level |-> "", impl |-> "", leaf_name |-> "",
     version |-> Absent, params |-> NoParams]

NoLocals ==
    [certificate_checksum |-> Absent, private_key_checksum |-> Absent,
     parent_certificate_checksum |-> Absent,
     parent_private_key_checksum |-> Absent,
     ca_certificate_checksum |-> Absent,
     checksum |-> Absent, metadata |-> <<>>, common_name |-> Absent,
     hosts |-> <<>>]

\* os.path.join(repository_dir_path, file_name), the directory being "."
get_repository_file_path(repository_dir_path, file_name) ==
    IF repository_dir_path = "" THEN file_name
    ELSE repository_dir_path \o "/" \o file_name

\* _get_repository_ca_subdir
get_repository_ca_subdir(repository_dir_path) ==
    get_repository_file_path(repository_dir_path, CA_SUBDIR)

LocalPaths ==
    FileNames \cup
    {get_repository_file_path(get_repository_ca_subdir(""), f) : f \in FileNames}

EmptyDir == [path \in LocalPaths |-> Absent]

Event(ev, key, arg, ok) == [ev |-> ev, key |-> key, arg |-> arg, ok |-> ok]

\* No library function is applied: the resource's scripts run.
NoInput == [fn |-> "", impl |-> "", arg |-> <<>>]

Init ==
    /\ s3 \in InitialStores
    /\ pc = [i \in Inv |-> "idle"]
    /\ req = [i \in Inv |-> NoRequest]
    /\ loc = [i \in Inv |-> NoLocals]
    /\ files = [i \in Inv |-> EmptyDir]
    /\ events = [i \in Inv |-> <<>>]
    /\ out = [i \in Inv |-> <<>>]
    /\ err = [i \in Inv |-> NoError]
    /\ input = NoInput
    /\ result = <<>>
    /\ history = <<>>


(***************************************************************************)
(* Decision functions                                                      *)
(***************************************************************************)
\* dict.get(key, default)
Get(value, default) == IF value = Absent THEN default ELSE value

should_download_certificate(payload) ==
    IF payload.params.present
    THEN Get(payload.params.save_certificate, "true") = "true"
    ELSE TRUE

should_download_private_key(payload) ==
    IF payload.params.present
    THEN Get(payload.params.save_private_key, "false") = "true"
    ELSE FALSE

should_download_root_ca_certificate(payload) ==
    IF payload.params.present
    THEN Get(payload.params.save_root_ca_certificate, "false") = "true"
    ELSE FALSE

should_download_intermediate_ca_certificate(payload) ==
    IF payload.params.present
    THEN Get(payload.params.save_intermediate_ca_certificate, "false") = "true"
    ELSE FALSE

should_save_to_ca_subdir(payload) ==
    IF payload.params.present
    THEN Get(payload.params.save_to_ca_subdir, "false") = "true"
    ELSE FALSE

\* lib/root_ca.py: params.get('save_certificate') is True
root_ca_should_download_certificate(payload) ==
    IF payload.params.present
    THEN Get(payload.params.save_certificate, "null") = "true"
    ELSE FALSE

root_ca_should_download_private_key(payload) ==
    IF payload.params.present
    THEN Get(payload.params.save_private_key, "null") = "true"
    ELSE FALSE

\* A create test that takes every action but renew for create.
action_is_not_renew(payload) ==
    ~(payload.params.present /\ payload.params.action = "renew")

\* A test that takes a request without an action for none of the two.
action_is_create_when_stated(payload) ==
    payload.params.present /\ payload.params.action = "create"

action_is_create(payload) ==
    IF payload.params.present /\ payload.params.action # Absent
    THEN payload.params.action = "create"
    ELSE TRUE

action_is_renew(payload) ==
    IF payload.params.present /\ payload.params.action # Absent
    THEN payload.params.action = "renew"
    ELSE FALSE

\* A comparison that accepts every requested version.
checksum_accepted(payload, checksum) == TRUE

\* _checksum_exists
checksum_exists(payload, checksum) == payload.version = checksum

(***************************************************************************)
(* The calls to the object store.  A call returns ok and a value, or the   *)
(* exception it raises.                                                    *)
(***************************************************************************)
Returned(value) == [ok |-> TRUE, value |-> value, exc |-> "", msg |-> ""]

Raised(exc, msg, value) == [ok |-> FALSE, value |-> value, exc |-> exc, msg |-> msg]

\* _get_s3_object_checksum: the value of the metadata entry whose lowercased
\* name is the lowercased CHECKSUM_METADATA_KEY_NAME; reading the metadata of
\* an object that is not in the bucket fails in the client.
get_s3_object_checksum(object) ==
    IF ~object.exists
    THEN Raised("ClientError", "404 Not Found", Absent)
    ELSE IF \E m \in object.metadata :
                Lower(m[1]) = Lower(CHECKSUM_METADATA_KEY_NAME)
         THEN Returned((CHOOSE m \in object.metadata :
                            Lower(m[1]) = Lower(CHECKSUM_METADATA_KEY_NAME))[2])
         ELSE Raised("KeyError", "metadata key 'sha256' not found", Absent)

\* A download that does not compare the hash of the file it wrote.
download_s3_object_unverified(object, expected_checksum) ==
    IF ~object.exists
    THEN Raised("ClientError", "404 Not Found", Absent)
    ELSE Returned(object.body)

\* _download_s3_object_to_path: the file is written, then hashed; value is
\* the body left at the destination path.
download_s3_object_to_path(object, expected_checksum) ==
    IF ~object.exists
    THEN Raised("ClientError", "404 Not Found", Absent)
    ELSE IF expected_checksum # concourse_hash_file(object.body)
         THEN Raised("ValueError",
                     "expected checksum does not match file checksum",
                     object.body)
         ELSE Returned(object.body)

\* lib/aws.py (used by lib/root_ca.py)
aws_get_s3_object_checksum(object) ==
    IF ~object.exists
    THEN Raised("ClientError", "404 Not Found", Absent)
    ELSE IF \E m \in object.metadata :
                Lower(m[1]) = Lower(CHECKSUM_METADATA_KEY_NAME)
         THEN Returned((CHOOSE m \in object.metadata :
                            Lower(m[1]) = Lower(CHECKSUM_METADATA_KEY_NAME))[2])
         ELSE Raised("KeyError", "metadata key 'sha256' not found", Absent)

aws_download_s3_object_to_path(object, expected_checksum) ==
    IF ~object.exists
    THEN Raised("ClientError", "404 Not Found", Absent)
    ELSE IF expected_checksum # hash_hash_file(object.body)
         THEN Raised("ValueError",
                     "expected checksum does not match file checksum",
                     object.body)
         ELSE Returned(object.body)

GetChecksum(impl, object) ==
    IF impl = "root_ca" THEN aws_get_s3_object_checksum(object)
    ELSE get_s3_object_checksum(object)

Download(impl, object, expected_checksum) ==
    IF impl = "root_ca"
    THEN aws_download_s3_object_to_path(object, expected_checksum)
    ELSE download_s3_object_to_path(object, expected_checksum)

(***************************************************************************)
(* Payloads and metadata                                                   *)
(***************************************************************************)
MetadataEntry(name, value) == [name |-> name, value |-> value]

\* _create_check_payload
create_check_payload(checksum) == <<[checksum |-> checksum]>>

\* _create_in_payload, _create_out_payload, with the metadata that
\* _update_payload_with_metadata appended
create_payload(checksum, metadata) ==
    [version |-> [checksum |-> checksum], metadata |-> metadata]

create_file_metadata(file_description, file_name, checksum) ==
    << MetadataEntry(file_description \o "_file_name", file_name),
       MetadataEntry(file_description \o "_checksum", checksum) >>

\* The description the metadata of a level's files is named by.
Description(level) ==
    CASE level = "root" -> "root_ca"
      [] level = "intermediate" -> "intermediate_ca"
      [] OTHER -> "leaf"

\* lib/root_ca.py: the metadata of the files found in the destination
\* directory, with the checksums of the local files
root_ca_in_metadata(dir) ==
    (IF dir[CERT_FILE_NAME] # Absent
     THEN << MetadataEntry("certificate_file_name", CERT_FILE_NAME),
             MetadataEntry("certificate_checksum",
                           hash_hash_file(dir[CERT_FILE_NAME])) >>
     ELSE <<>>)
    \o
    (IF dir[PRIVATE_KEY_FILE_NAME] # Absent
     THEN << MetadataEntry("private_key_file_name", PRIVATE_KEY_FILE_NAME),
             MetadataEntry("private_key_checksum",
                           hash_hash_file(dir[PRIVATE_KEY_FILE_NAME])) >>
     ELSE <<>>)

(***************************************************************************)
(* An invocation's state, and the steps' effects on it                     *)
(***************************************************************************)
Cur(i) ==
    [pc |-> pc[i], loc |-> loc[i], files |-> files[i],
     events |-> events[i], out |-> out[i], err |-> err[i]]

Commit(i, st) ==
    /\ pc' = [pc EXCEPT ![i] = st.pc]
    /\ loc' = [loc EXCEPT ![i] = st.loc]
    /\ files' = [files EXCEPT ![i] = st.files]
    /\ events' = [events EXCEPT ![i] = st.events]
    /\ out' = [out EXCEPT ![i] = st.out]
    /\ err' = [err EXCEPT ![i] = st.err]
    /\ UNCHANGED libvars

\* A failure that is reported on standard output as well.
raise_with_error_response(st, exc, msg) ==
    [st EXCEPT !.err = Exception(exc, msg, st.pc), !.pc = "failed",
               !.out = Append(@, [error |-> msg])]

Raise(st, exc, msg) ==
    [st EXCEPT !.err = Exception(exc, msg, st.pc), !.pc = "failed"]

Log(st, ev, key, arg, ok) ==
    [st EXCEPT !.events = Append(@, Event(ev, key, arg, ok))]

\* _write_payload: json.dump to stdout, the handler's last statement
write_payload(st, payload) ==
    [Log(st, "write", "", "", TRUE) EXCEPT !.out = Append(@, payload),
                                            !.pc = "done"]

CertificateName(r) ==
    IF r.impl = "root_ca" THEN CERT_FILE_NAME
    ELSE CertificateFileName(FilePrefix(r.level, r.leaf_name))

PrivateKeyName(r) ==
    IF r.impl = "root_ca" THEN PRIVATE_KEY_FILE_NAME
    ELSE PrivateKeyFileName(FilePrefix(r.level, r.leaf_name))

(***************************************************************************)
(* Reading the request                                                     *)
(***************************************************************************)
\* The versions a pipeline may ask for: the one a Check of the bucket as it
\* is would report, and one that is not current.
RequestedVersions(level, leaf_name) ==
    LET c == get_s3_object_checksum(
                 s3[get_s3_object(CertificateFileName(FilePrefix(level, leaf_name)))])
        k == get_s3_object_checksum(
                 s3[get_s3_object(PrivateKeyFileName(FilePrefix(level, leaf_name)))])
    IN  {"stale"} \cup
        (IF c.ok /\ k.ok THEN {get_keypair_checksum(c.value, k.value)} ELSE {})

Request(op, level, impl, leaf_name, version, params) ==
    [op |-> op, level |-> level, impl |-> impl, leaf_name |-> leaf_name,
     version |-> version, params |-> params]

LeafNameOf(level) == IF level = "leaf" THEN LeafNames ELSE {""}

Requests ==
    UNION { UNION { UNION {
        {Request("check", level, impl, n, v, NoParams) : v \in {Absent, "stale"}}
        \cup
        {Request("in", level, impl, n, v, p) :
            v \in RequestedVersions(level, n), p \in InParamChoices(level)}
        \cup
        {Request("out", level, impl, n, Absent, p) : p \in OutParamChoices}
        : n \in LeafNameOf(level)} : impl \in Impls(level)} : level \in Levels}

\* An Out that goes to its action check without fetching the parent bundle.
FirstStepSkippingParent(r) ==
    CASE r.op = "check" -> "check_certificate_checksum"
      [] r.op = "in" -> "in_certificate_checksum"
      [] OTHER -> "out_action"

FirstStep(r) ==
    CASE r.op = "check" -> "check_certificate_checksum"
      [] r.op = "in" -> "in_certificate_checksum"
      [] r.op = "out" /\ r.impl = "concourse" /\ r.level # "root"
            -> "out_parent_certificate_checksum"
      [] OTHER -> "out_action"

\* _read_payload: json.load(stdin)
Start(i) ==
    /\ pc[i] = "idle"
    /\ \E r \in Requests :
          /\ req' = [req EXCEPT ![i] = r]
          /\ pc' = [pc EXCEPT ![i] = FirstStep(r)]
    /\ UNCHANGED <<s3, loc, files, events, out, err, libvars>>

(***************************************************************************)
(* Check: root_ca_check, intermediate_ca_check, leaf_check; do_check       *)
(***************************************************************************)
CheckCertificateChecksum(i) ==
    /\ pc[i] = "check_certificate_checksum"
    /\ LET key == get_s3_object(CertificateName(req[i]))
           r == GetChecksum(req[i].impl, s3[key])
           st == Log(Cur(i), "head", key, "", r.ok)
       IN  Commit(i, IF r.ok
                     THEN [st EXCEPT !.loc.certificate_checksum = r.value,
                                     !.pc = "check_private_key_checksum"]
                     ELSE Raise(st, r.exc, r.msg))
    /\ UNCHANGED <<s3, req>>

CheckPrivateKeyChecksum(i) ==
    /\ pc[i] = "check_private_key_checksum"
    /\ LET key == get_s3_object(PrivateKeyName(req[i]))
           r == GetChecksum(req[i].impl, s3[key])
           st == Log(Cur(i), "head", key, "", r.ok)
           checksum == IF req[i].impl = "root_ca"
                       THEN hash_hash_list(<<loc[i].certificate_checksum, r.value>>)
                       ELSE get_keypair_checksum(loc[i].certificate_checksum, r.value)
       IN  Commit(i, IF r.ok
                     THEN write_payload(
                              [st EXCEPT !.loc.private_key_checksum = r.value,
                                         !.loc.checksum = checksum],
                              create_check_payload(checksum))
                     ELSE Raise(st, r.exc, r.msg))
    /\ UNCHANGED <<s3, req>>


(***************************************************************************)
(* In: root_ca_in, intermediate_ca_in, leaf_in; do_in                      *)
(***************************************************************************)
\* The downloads of an In, in the order of the handler's if statements.
InStages == <<"in_download_certificate", "in_download_private_key",
              "in_root_ca_certificate_checksum",
              "in_intermediate_ca_certificate_checksum">>

InStageWanted(r, n) ==
    CASE n = 1 -> IF r.impl = "root_ca"
                  THEN root_ca_should_download_certificate(r)
                  ELSE should_download_certificate(r)
      [] n = 2 -> IF r.impl = "root_ca"
                  THEN root_ca_should_download_private_key(r)
                  ELSE should_download_private_key(r)
      [] n = 3 -> r.level = "leaf" /\ should_download_root_ca_certificate(r)
      [] OTHER -> r.level = "leaf"
                  /\ should_download_intermediate_ca_certificate(r)

\* After stage n: the next download asked for, or the response.
AfterInStage(st, r, n) ==
    LET later == {m \in (n+1)..Len(InStages) : InStageWanted(r, m)}
    IN  IF later # {}
        THEN [st EXCEPT !.pc = InStages[CHOOSE m \in later :
                                           \A k \in later : m <= k]]
        ELSE write_payload(st,
                 create_payload(r.version,
                                IF r.impl = "root_ca"
                                THEN root_ca_in_metadata(st.files)
                                ELSE st.loc.metadata))

InCertificateChecksum(i) ==
    /\ pc[i] = "in_certificate_checksum"
    /\ LET key == get_s3_object(CertificateName(req[i]))
           r == GetChecksum(req[i].impl, s3[key])
           st == Log(Cur(i), "head", key, "", r.ok)
       IN  Commit(i, IF r.ok
                     THEN [st EXCEPT !.loc.certificate_checksum = r.value,
                                     !.pc = "in_private_key_checksum"]
                     ELSE Raise(st, r.exc, r.msg))
    /\ UNCHANGED <<s3, req>>

\* The second stored checksum, the version recomputed from the two, and the
\* comparison with the requested version.
InPrivateKeyChecksum(i) ==
    /\ pc[i] = "in_private_key_checksum"
    /\ LET key == get_s3_object(PrivateKeyName(req[i]))
           r == GetChecksum(req[i].impl, s3[key])
           st == Log(Cur(i), "head", key, "", r.ok)
           checksum == IF req[i].impl = "root_ca"
                       THEN hash_hash_list(<<loc[i].certificate_checksum, r.value>>)
                       ELSE get_keypair_checksum(loc[i].certificate_checksum, r.value)
           read == [st EXCEPT !.loc.private_key_checksum = r.value,
                              !.loc.checksum = checksum]
       IN  Commit(i, IF ~r.ok THEN Raise(st, r.exc, r.msg)
                     ELSE IF checksum_exists(req[i], checksum)
                          THEN AfterInStage(read, req[i], 0)
                          ELSE Raise(read, "ValueError",
                                     "requested checksum is unavailable"))
    /\ UNCHANGED <<s3, req>>

\* A download that takes the object out of the bucket.
InDownloadCertificateRemoving(i) ==
    /\ pc[i] = "in_download_certificate"
    /\ LET name == CertificateName(req[i])
           key == get_s3_object(name)
           r == Download(req[i].impl, s3[key], loc[i].certificate_checksum)
           st == [Log(Cur(i), "download", key, loc[i].certificate_checksum, r.ok)
                     EXCEPT !.files[get_repository_file_path("", name)] = r.value]
       IN  /\ Commit(i, IF r.ok
                        THEN AfterInStage(st, req[i], 1)
                        ELSE Raise(st, r.exc, r.msg))
           /\ s3' = [s3 EXCEPT ![key] = NoObject]
    /\ UNCHANGED req

InDownloadCertificate(i) ==
    /\ pc[i] = "in_download_certificate"
    /\ LET name == CertificateName(req[i])
           key == get_s3_object(name)
           r == Download(req[i].impl, s3[key], loc[i].certificate_checksum)
           st == [Log(Cur(i), "download", key, loc[i].certificate_checksum, r.ok)
                     EXCEPT !.files[get_repository_file_path("", name)] = r.value]
           metadata == create_file_metadata(
                           Description(req[i].level) \o "_certificate",
                           name, loc[i].certificate_checksum)
       IN  Commit(i, IF r.ok
                     THEN AfterInStage(
                              [st EXCEPT !.loc.metadata = @ \o metadata],
                              req[i], 1)
                     ELSE Raise(st, r.exc, r.msg))
    /\ UNCHANGED <<s3, req>>

InDownloadPrivateKey(i) ==
    /\ pc[i] = "in_download_private_key"
    /\ LET name == PrivateKeyName(req[i])
           key == get_s3_object(name)
           r == Download(req[i].impl, s3[key], loc[i].private_key_checksum)
           st == [Log(Cur(i), "download", key, loc[i].private_key_checksum, r.ok)
                     EXCEPT !.files[get_repository_file_path("", name)] = r.value]
           metadata == create_file_metadata(
                           Description(req[i].level) \o "_private_key",
                           name, loc[i].private_key_checksum)
       IN  Commit(i, IF r.ok
                     THEN AfterInStage(
                              [st EXCEPT !.loc.metadata = @ \o metadata],
                              req[i], 2)
                     ELSE Raise(st, r.exc, r.msg))
    /\ UNCHANGED <<s3, req>>

\* leaf_in: where a CA certificate goes
CaDestinationDir(r) ==
    IF should_save_to_ca_subdir(r) THEN get_repository_ca_subdir("") ELSE ""

\* leaf_in, the root CA certificate: its stored checksum ...
InRootCaCertificateChecksum(i) ==
    /\ pc[i] = "in_root_ca_certificate_checksum"
    /\ LET key == get_s3_object(ROOT_CA_CERTIFICATE_FILE_NAME)
           r == get_s3_object_checksum(s3[key])
           st == Log(Cur(i), "head", key, "", r.ok)
       IN  Commit(i, IF r.ok
                     THEN [st EXCEPT !.loc.ca_certificate_checksum = r.value,
                                     !.pc = "in_download_root_ca_certificate"]
                     ELSE Raise(st, r.exc, r.msg))
    /\ UNCHANGED <<s3, req>>

\* ... and its download
InDownloadRootCaCertificate(i) ==
    /\ pc[i] = "in_download_root_ca_certificate"
    /\ LET key == get_s3_object(ROOT_CA_CERTIFICATE_FILE_NAME)
           path == get_repository_file_path(CaDestinationDir(req[i]),
                                            ROOT_CA_CERTIFICATE_FILE_NAME)
           r == download_s3_object_to_path(s3[key], loc[i].ca_certificate_checksum)
           st == [Log(Cur(i), "download", key, loc[i].ca_certificate_checksum, r.ok)
                     EXCEPT !.files[path] = r.value]
           metadata == create_file_metadata("root_ca_certificate",
                           ROOT_CA_CERTIFICATE_FILE_NAME,
                           loc[i].ca_certificate_checksum)
       IN  Commit(i, IF r.ok
                     THEN AfterInStage(
                              [st EXCEPT !.loc.metadata = @ \o metadata],
                              req[i], 3)
                     ELSE Raise(st, r.exc, r.msg))
    /\ UNCHANGED <<s3, req>>

\* leaf_in, the intermediate CA certificate: the object and the path are
\* those of ROOT_CA_CERTIFICATE_FILE_NAME, the metadata names
\* INTERMEDIATE_CA_CERTIFICATE_FILE_NAME.
InIntermediateCaCertificateChecksum(i) ==
    /\ pc[i] = "in_intermediate_ca_certificate_checksum"
    /\ LET key == get_s3_object(ROOT_CA_CERTIFICATE_FILE_NAME)
           r == get_s3_object_checksum(s3[key])
           st == Log(Cur(i), "head", key, "", r.ok)
       IN  Commit(i, IF r.ok
                     THEN [st EXCEPT !.loc.ca_certificate_checksum = r.value,
                                     !.pc = "in_download_intermediate_ca_certificate"]
                     ELSE Raise(st, r.exc, r.msg))
    /\ UNCHANGED <<s3, req>>

InDownloadIntermediateCaCertificate(i) ==
    /\ pc[i] = "in_download_intermediate_ca_certificate"
    /\ LET key == get_s3_object(ROOT_CA_CERTIFICATE_FILE_NAME)
           path == get_repository_file_path(CaDestinationDir(req[i]),
                                            ROOT_CA_CERTIFICATE_FILE_NAME)
           r == download_s3_object_to_path(s3[key], loc[i].ca_certificate_checksum)
           st == [Log(Cur(i), "download", key, loc[i].ca_certificate_checksum, r.ok)
                     EXCEPT !.files[path] = r.value]
           metadata == create_file_metadata("intermediate_ca_certificate",
                           INTERMEDIATE_CA_CERTIFICATE_FILE_NAME,
                           loc[i].ca_certificate_checksum)
       IN  Commit(i, IF r.ok
                     THEN AfterInStage(
                              [st EXCEPT !.loc.metadata = @ \o metadata],
                              req[i], 4)
                     ELSE Raise(st, r.exc, r.msg))
    /\ UNCHANGED <<s3, req>>


(***************************************************************************)
(* The PKI engine: lib/cfssl.py                                            *)
(***************************************************************************)
\* The functions lib/cfssl.py defines.
CfsslFunctions ==
    {"get_certificate_info", "get_certificate_issue_date",
     "get_certificate_expiration_date",
     "get_duration_until_certificate_expiration",
     "create_root_ca", "create_intermediate_ca", "create_leaf",
     "renew_root_certificate"}

\* A lib.cfssl in which every name looked up is defined.
AnyAttr(name) == TRUE

\* The lookup of lib.cfssl.<name>: a name the module does not define raises
\* AttributeError where it is looked up.
ModuleHasAttr(name) == name \in CfsslFunctions

CreateFunction(level) ==
    CASE level = "root" -> "create_root_ca"
      [] level = "intermediate" -> "create_intermediate_ca"
      [] OTHER -> "create_leaf"

\* The renewal each Out handler calls.
RenewFunction(level) ==
    CASE level = "root" -> "renew_root_certificate"
      [] level = "intermediate" -> "renew_intermediate_certificate"
      [] OTHER -> "renew_leaf_certificate"

\* The common name cfssl gencert is given: in the signing request for a
\* root, in "-cn=" for the others; create_intermediate_ca's argument list
\* joins "-cn=<CN>" and "-loglevel=0" into one argument.
GencertCommonName(level, CN) ==
    IF level = "intermediate" THEN CN \o "-loglevel=0" ELSE CN

\* What cfssljson -bare writes: a certificate and a private key.
NewCertificate(file_prefix, common_name, i) ==
    "cert:" \o file_prefix \o ":CN=" \o common_name \o ":" \o ToString(i)

NewPrivateKey(file_prefix, i) == "key:" \o file_prefix \o ":" \o ToString(i)

\* gencert -renewca: a new certificate for the same private key.
RenewedCertificate(certificate, i) == certificate \o ":renewed:" \o ToString(i)

\* create_root_ca, create_intermediate_ca, create_leaf; ok is whether the
\* cfssl and cfssljson processes exit with status 0.
Create(st, r, i, ok) ==
    LET file_prefix == FilePrefix(r.level, r.leaf_name)
        made == [st EXCEPT
                   !.files[CertificateFileName(file_prefix)] =
                       NewCertificate(file_prefix,
                           GencertCommonName(r.level, r.params.CN), i),
                   !.files[PrivateKeyFileName(file_prefix)] =
                       NewPrivateKey(file_prefix, i),
                   !.pc = "out_finish"]
    IN  IF ~r.params.present THEN Raise(st, "KeyError", "'params'")
        ELSE IF r.params.CN = Absent THEN Raise(st, "KeyError", "'CN'")
        ELSE IF ok THEN Log(made, "pki", "", CreateFunction(r.level), TRUE)
        ELSE Raise(Log(st, "pki", "", CreateFunction(r.level), FALSE),
                   "CalledProcessError", "cfssl gencert")

(***************************************************************************)
(* Out: root_ca_out, intermediate_ca_out, leaf_out; do_out                 *)
(***************************************************************************)
\* A dispatch that takes the renewal branch for create as well.
OutBranchRenewing(payload) ==
    IF action_is_create(payload) \/ action_is_renew(payload) THEN "renew"
    ELSE "invalid"

\* The if / elif / else on the action.
OutBranch(payload) ==
    IF action_is_create(payload) THEN "create"
    ELSE IF action_is_renew(payload) THEN "renew"
    ELSE "invalid"

ParentCertificateName(r) ==
    CertificateFileName(FilePrefix(ParentLevel(r.level), ""))

ParentPrivateKeyName(r) ==
    PrivateKeyFileName(FilePrefix(ParentLevel(r.level), ""))

\* A parent step that puts a certificate where the parent's is missing.
OutParentCertificateChecksumCreating(i) ==
    /\ pc[i] = "out_parent_certificate_checksum"
    /\ LET name == ParentCertificateName(req[i])
           key == get_s3_object(name)
           r == get_s3_object_checksum(s3[key])
           st == Log(Cur(i), "head", key, "", r.ok)
       IN  /\ Commit(i, IF r.ok
                        THEN [st EXCEPT !.loc.parent_certificate_checksum = r.value,
                                        !.pc = "out_parent_private_key_checksum"]
                        ELSE Raise(st, r.exc, r.msg))
           /\ s3' = IF s3[key].exists THEN s3
                    ELSE [s3 EXCEPT ![key] =
                             Tagged(CHECKSUM_METADATA_KEY_NAME,
                                    SeedCertificate(FilePrefix(ParentLevel(req[i].level), "")))]
    /\ UNCHANGED req

OutParentCertificateChecksum(i) ==
    /\ pc[i] = "out_parent_certificate_checksum"
    /\ LET key == get_s3_object(ParentCertificateName(req[i]))
           r == get_s3_object_checksum(s3[key])
           st == Log(Cur(i), "head", key, "", r.ok)
       IN  Commit(i, IF r.ok
                     THEN [st EXCEPT !.loc.parent_certificate_checksum = r.value,
                                     !.pc = "out_parent_private_key_checksum"]
                     ELSE Raise(st, r.exc, r.msg))
    /\ UNCHANGED <<s3, req>>

OutParentPrivateKeyChecksum(i) ==
    /\ pc[i] = "out_parent_private_key_checksum"
    /\ LET key == get_s3_object(ParentPrivateKeyName(req[i]))
           r == get_s3_object_checksum(s3[key])
           st == Log(Cur(i), "head", key, "", r.ok)
       IN  Commit(i, IF r.ok
                     THEN [st EXCEPT !.loc.parent_private_key_checksum = r.value,
                                     !.pc = "out_download_parent_certificate"]
                     ELSE Raise(st, r.exc, r.msg))
    /\ UNCHANGED <<s3, req>>

OutDownloadParentCertificate(i) ==
    /\ pc[i] = "out_download_parent_certificate"
    /\ LET name == ParentCertificateName(req[i])
           key == get_s3_object(name)
           r == download_s3_object_to_path(s3[key],
                                           loc[i].parent_certificate_checksum)
           st == [Log(Cur(i), "download", key,
                      loc[i].parent_certificate_checksum, r.ok)
                     EXCEPT !.files[get_repository_file_path("", name)] = r.value]
       IN  Commit(i, IF r.ok
                     THEN [st EXCEPT !.pc = "out_download_parent_private_key"]
                     ELSE Raise(st, r.exc, r.msg))
    /\ UNCHANGED <<s3, req>>

OutDownloadParentPrivateKey(i) ==
    /\ pc[i] = "out_download_parent_private_key"
    /\ LET name == ParentPrivateKeyName(req[i])
           key == get_s3_object(name)
           r == download_s3_object_to_path(s3[key],
                                           loc[i].parent_private_key_checksum)
           st == [Log(Cur(i), "download", key,
                      loc[i].parent_private_key_checksum, r.ok)
                     EXCEPT !.files[get_repository_file_path("", name)] = r.value]
       IN  Commit(i, IF r.ok
                     THEN [st EXCEPT !.pc = "out_action"]
                     ELSE Raise(st, r.exc, r.msg))
    /\ UNCHANGED <<s3, req>>

\* The action check.  create: the PKI engine makes the key pair.  renew: the
\* stored checksum of the existing certificate is read first.  Anything
\* else: ValueError.  do_out (lib/root_ca.py) calls create_root_ca with two
\* arguments, which has three parameters.
OutAction(i) ==
    /\ pc[i] = "out_action"
    /\ \E ok \in BOOLEAN :
          LET key == get_s3_object(CertificateName(req[i]))
              r == get_s3_object_checksum(s3[key])
              st == Log(Cur(i), "head", key, "", r.ok)
          IN  Commit(i,
                CASE req[i].impl = "root_ca" ->
                       Raise(Cur(i), "TypeError",
                             "create_root_ca() missing 1 required positional argument")
                  [] req[i].impl # "root_ca" /\ OutBranch(req[i]) = "create" ->
                       Create(Cur(i), req[i], i, ok)
                  [] req[i].impl # "root_ca" /\ OutBranch(req[i]) = "renew" ->
                       IF r.ok
                       THEN [st EXCEPT !.loc.certificate_checksum = r.value,
                                       !.pc = "out_renew_private_key_checksum"]
                       ELSE Raise(st, r.exc, r.msg)
                  [] OTHER ->
                       Raise(Cur(i), "ValueError",
                             "action must be 'create' or 'renew'"))
    /\ UNCHANGED <<s3, req>>

\* A renewal that inspects and renews without downloading the bundle.
OutRenewWithoutDownload(i) ==
    /\ pc[i] = "out_renew_private_key_checksum"
    /\ LET key == get_s3_object(PrivateKeyName(req[i]))
           r == get_s3_object_checksum(s3[key])
           st == Log(Cur(i), "head", key, "", r.ok)
       IN  Commit(i, IF r.ok
                     THEN [st EXCEPT !.loc.private_key_checksum = r.value,
                                     !.pc = "out_renew"]
                     ELSE Raise(st, r.exc, r.msg))
    /\ UNCHANGED <<s3, req>>

OutRenewPrivateKeyChecksum(i) ==
    /\ pc[i] = "out_renew_private_key_checksum"
    /\ LET key == get_s3_object(PrivateKeyName(req[i]))
           r == get_s3_object_checksum(s3[key])
           st == Log(Cur(i), "head", key, "", r.ok)
       IN  Commit(i, IF r.ok
                     THEN [st EXCEPT !.loc.private_key_checksum = r.value,
                                     !.pc = "out_renew_download_certificate"]
                     ELSE Raise(st, r.exc, r.msg))
    /\ UNCHANGED <<s3, req>>

OutRenewDownloadCertificate(i) ==
    /\ pc[i] = "out_renew_download_certificate"
    /\ LET name == CertificateName(req[i])
           key == get_s3_object(name)
           r == download_s3_object_to_path(s3[key], loc[i].certificate_checksum)
           st == [Log(Cur(i), "download", key, loc[i].certificate_checksum, r.ok)
                     EXCEPT !.files[get_repository_file_path("", name)] = r.value]
       IN  Commit(i, IF r.ok
                     THEN [st EXCEPT !.pc = "out_renew_download_private_key"]
                     ELSE Raise(st, r.exc, r.msg))
    /\ UNCHANGED <<s3, req>>

OutRenewDownloadPrivateKey(i) ==
    /\ pc[i] = "out_renew_download_private_key"
    /\ LET name == PrivateKeyName(req[i])
           key == get_s3_object(name)
           r == download_s3_object_to_path(s3[key], loc[i].private_key_checksum)
           st == [Log(Cur(i), "download", key, loc[i].private_key_checksum, r.ok)
                     EXCEPT !.files[get_repository_file_path("", name)] = r.value]
       IN  Commit(i, IF r.ok
                     THEN [st EXCEPT !.pc = "out_renew"]
                     ELSE Raise(st, r.exc, r.msg))
    /\ UNCHANGED <<s3, req>>

\* The inspection of the existing certificate, then the renewal.
OutRenew(i) ==
    /\ pc[i] = "out_renew"
    /\ \E info_ok \in BOOLEAN, ok \in BOOLEAN :
          LET name == CertificateName(req[i])
              inspected == Log(Cur(i), "pki", "", "get_certificate_info", info_ok)
              renew == RenewFunction(req[i].level)
          IN  Commit(i,
                IF ~info_ok
                THEN Raise(inspected, "CalledProcessError", "cfssl certinfo")
                ELSE IF ~ModuleHasAttr(renew)
                THEN Raise(inspected, "AttributeError",
                           "module 'lib.cfssl' has no attribute '" \o renew \o "'")
                ELSE IF ~ok
                THEN Raise(Log(inspected, "pki", "", renew, FALSE),
                           "CalledProcessError", "cfssl gencert")
                ELSE [Log(inspected, "pki", "", renew, TRUE) EXCEPT
                        !.files[name] = RenewedCertificate(@, i),
                        !.pc = "out_finish"])
    /\ UNCHANGED <<s3, req>>


\* An upload that sends no metadata.
upload_s3_object_untagged(store, key, checksum, body) ==
    [store EXCEPT ![key] = Object(body, {})]

\* An upload that replaces the body of an object the bucket has and leaves
\* its metadata as it was.
upload_s3_object_keeping_metadata(store, key, checksum, body) ==
    [store EXCEPT ![key] =
        IF store[key].exists THEN Object(body, store[key].metadata)
        ELSE Object(body, {<<CHECKSUM_METADATA_KEY_NAME, checksum>>})]

\* _upload_s3_object_to_path: the object becomes the file, tagged with the
\* checksum given.
upload_s3_object_to_path(store, key, checksum, body) ==
    [store EXCEPT ![key] = Object(body, {<<CHECKSUM_METADATA_KEY_NAME, checksum>>})]

\* lib/aws.py: upload_s3_object_to_path
aws_upload_s3_object_to_path(store, key, checksum, body) ==
    [store EXCEPT ![key] = Object(body, {<<CHECKSUM_METADATA_KEY_NAME, checksum>>})]

create_common_name_metadata(file_description, common_name) ==
    <<MetadataEntry(file_description \o "_common_name", common_name)>>

\* str(timedelta): the text of the time left
create_expiration_metadata(file_description, time_until_expiration) ==
    <<MetadataEntry(file_description \o "_time_until_expiration",
                    time_until_expiration)>>

\* Host entries numbered from one.
create_hosts_metadata_from_one(file_description, hosts) ==
    [n \in 1..Len(hosts) |->
        MetadataEntry(file_description \o "_host_" \o ToString(n), hosts[n])]

\* _create_hosts_metadata: enumerate(hosts) counts from 0
create_hosts_metadata(file_description, hosts) ==
    [n \in 1..Len(hosts) |->
        MetadataEntry(file_description \o "_host_" \o ToString(n - 1), hosts[n])]

\* The host names a leaf certificate may carry
Hosts == {"a.example", "b.example"}

HostLists == UNION {[1..n -> Hosts] : n \in 0..MaxHosts}

\* The metadata of an Out's response, in the order of the calls to
\* _update_payload_with_metadata; the host entries are those of a leaf, and
\* are left out when the host list is empty.
OutMetadata(r, l) ==
    LET description == Description(r.level) \o "_certificate"
    IN  create_file_metadata(description, CertificateName(r),
                             l.certificate_checksum)
        \o create_file_metadata(Description(r.level) \o "_private_key",
                                PrivateKeyName(r), l.private_key_checksum)
        \o create_common_name_metadata(description, l.common_name)
        \o (IF r.level = "leaf" /\ l.hosts # <<>>
            THEN create_hosts_metadata(description, l.hosts)
            ELSE <<>>)
        \o create_expiration_metadata(description, "time_until_expiration")

\* The lookups of lib.cfssl an Out makes after the certificate info.
InfoFunctions(level) ==
    IF level = "leaf"
    THEN <<"get_certificate_common_name", "get_certificate_hosts">>
    ELSE <<"get_certificate_common_name">>

MissingAttrs(names) == {n \in 1..Len(names) : ~ModuleHasAttr(names[n])}

\* An Out that uploads both files and only then inspects the certificate.
OutFinishUploadingFirst(i) ==
    /\ pc[i] = "out_finish"
    /\ LET certificate_name == CertificateName(req[i])
           private_key_name == PrivateKeyName(req[i])
           certificate_checksum == concourse_hash_file(files[i][certificate_name])
           private_key_checksum == concourse_hash_file(files[i][private_key_name])
           uploaded == Log(Log(Cur(i), "upload", get_s3_object(certificate_name),
                               certificate_checksum, TRUE),
                           "upload", get_s3_object(private_key_name),
                           private_key_checksum, TRUE)
           inspected == Log(uploaded, "pki", "", "get_certificate_info", TRUE)
       IN  /\ Commit(i, Raise(inspected, "AttributeError",
                   "module 'lib.cfssl' has no attribute 'get_certificate_common_name'"))
           /\ s3' = upload_s3_object_to_path(
                        upload_s3_object_to_path(s3,
                            get_s3_object(certificate_name),
                            certificate_checksum, files[i][certificate_name]),
                        get_s3_object(private_key_name),
                        private_key_checksum, files[i][private_key_name])
    /\ UNCHANGED req

\* After the key pair is made or renewed: the local checksums and the
\* certificate info ("out_finish"), then the two uploads, each a step, and
\* the response with the second.
OutFinish(i) ==
    /\ pc[i] \in {"out_finish", "out_upload_certificate",
                  "out_upload_private_key"}
    /\ \E ok \in BOOLEAN, hosts \in HostLists :
          LET certificate_name == CertificateName(req[i])
              private_key_name == PrivateKeyName(req[i])
              certificate_checksum == concourse_hash_file(files[i][certificate_name])
              private_key_checksum == concourse_hash_file(files[i][private_key_name])
              hashed == [Cur(i) EXCEPT
                           !.loc.certificate_checksum = certificate_checksum,
                           !.loc.private_key_checksum = private_key_checksum,
                           !.loc.checksum = get_keypair_checksum(
                                                certificate_checksum,
                                                private_key_checksum)]
              inspected == Log(hashed, "pki", "", "get_certificate_info", ok)
              names == InfoFunctions(req[i].level)
              missing == MissingAttrs(names)
              key == get_s3_object(IF pc[i] = "out_upload_certificate"
                                   THEN certificate_name ELSE private_key_name)
              uploaded == Log(Cur(i), "upload", key,
                              IF pc[i] = "out_upload_certificate"
                              THEN loc[i].certificate_checksum
                              ELSE loc[i].private_key_checksum, ok)
          IN  /\ Commit(i,
                   CASE pc[i] = "out_finish" ->
                          IF ~ok
                          THEN Raise(inspected, "CalledProcessError", "cfssl certinfo")
                          ELSE IF missing # {}
                          THEN Raise(inspected, "AttributeError",
                                   "module 'lib.cfssl' has no attribute '"
                                   \o names[CHOOSE n \in missing :
                                               \A m \in missing : n <= m]
                                   \o "'")
                          ELSE [inspected EXCEPT
                                  !.loc.common_name = "common_name",
                                  !.loc.hosts = IF req[i].level = "leaf"
                                                THEN hosts ELSE <<>>,
                                  !.pc = "out_upload_certificate"]
                     [] pc[i] = "out_upload_certificate" ->
                          IF ok
                          THEN [uploaded EXCEPT !.pc = "out_upload_private_key"]
                          ELSE Raise(uploaded, "S3UploadFailedError", "upload_file")
                     [] OTHER ->
                          IF ok
                          THEN write_payload(uploaded,
                                   create_payload(loc[i].checksum,
                                                  OutMetadata(req[i], loc[i])))
                          ELSE Raise(uploaded, "S3UploadFailedError", "upload_file"))
              /\ s3' = CASE pc[i] = "out_upload_certificate" /\ ok ->
                              upload_s3_object_to_path(s3, key,
                                  loc[i].certificate_checksum,
                                  files[i][certificate_name])
                         [] pc[i] = "out_upload_private_key" /\ ok ->
                              upload_s3_object_to_path(s3, key,
                                  loc[i].private_key_checksum,
                                  files[i][private_key_name])
                         [] OTHER -> s3
    /\ UNCHANGED req

(***************************************************************************)
(* The resource: invocations of its scripts, interleaved at their calls to *)
(* the object store and the PKI engine.                                    *)
(***************************************************************************)
Next ==
    \E i \in Inv :
        \/ Start(i)
        \/ CheckCertificateChecksum(i)
        \/ CheckPrivateKeyChecksum(i)
        \/ InCertificateChecksum(i)
        \/ InPrivateKeyChecksum(i)
        \/ InDownloadCertificate(i)
        \/ InDownloadPrivateKey(i)
        \/ InRootCaCertificateChecksum(i)
        \/ InDownloadRootCaCertificate(i)
        \/ InIntermediateCaCertificateChecksum(i)
        \/ InDownloadIntermediateCaCertificate(i)
        \/ OutParentCertificateChecksum(i)
        \/ OutParentPrivateKeyChecksum(i)
        \/ OutDownloadParentCertificate(i)
        \/ OutDownloadParentPrivateKey(i)
        \/ OutAction(i)
        \/ OutRenewPrivateKeyChecksum(i)
        \/ OutRenewDownloadCertificate(i)
        \/ OutRenewDownloadPrivateKey(i)
        \/ OutRenew(i)
        \/ OutFinish(i)

Spec == Init /\ [][Next]_vars

(***************************************************************************)
(* The library: the hash functions, the metadata of a leaf Out's response  *)
(* and the transfer primitives, applied to arguments drawn from bounded    *)
(* sets.  Workers are the invocations; a writer hashes its two files and   *)
(* uploads them as an Out does, a reader downloads them as an In does.     *)
(***************************************************************************)
HexDigits == {"a", "b"}

RECURSIVE HexStringsOfLength(_)
HexStringsOfLength(n) ==
    IF n = 0 THEN {""}
    ELSE {d \o h : d \in HexDigits, h \in HexStringsOfLength(n - 1)}

HexStrings == UNION {HexStringsOfLength(n) : n \in 1..MaxHexLen}

StringLists == UNION {[1..n -> HexStrings] : n \in 0..MaxList}

\* The bodies of the files a writer holds
Bodies == {"pem-a", "pem-b"}

LocalBundles == [Inv -> [certificate : Bodies, private_key : Bodies]]

HashListInputs ==
    {[fn |-> "hash_list", impl |-> "", arg |-> l] : l \in StringLists}

KeypairChecksumInputs ==
    {[fn |-> "get_keypair_checksum", impl |-> "concourse", arg |-> <<a, b>>] :
        a \in HexStrings, b \in HexStrings}

LeafOutInputs ==
    {[fn |-> "leaf_out", impl |-> "concourse", arg |-> h] : h \in HostLists}

\* The values source.leaf_name may have: the code takes the name as it is.
LeafNameChoices == {"server", "client", "server-key", "root-ca"}

LeafObjectsInputs ==
    {[fn |-> "leaf_objects", impl |-> "concourse", arg |-> <<a, b>>] :
        a \in LeafNameChoices, b \in LeafNameChoices}

VersionsInputs ==
    {[fn |-> "versions", impl |-> "concourse", arg |-> <<c1, k1, c2, k2>>] :
        c1 \in HexStrings, k1 \in HexStrings,
        c2 \in HexStrings, k2 \in HexStrings}

TransferInputs ==
    {[fn |-> f, impl |-> m, arg |-> b] :
        f \in {"round_trip", "race"}, m \in Impls("root"), b \in LocalBundles}

\* In a round trip invocation 1 uploads and the others download; in a race
\* all upload.
Writers(inp) ==
    CASE inp.fn = "race" -> Inv
      [] inp.fn = "round_trip" -> {1}
      [] OTHER -> {}

Readers(inp) == IF inp.fn = "round_trip" THEN Inv \ {1} ELSE {}

\* The request whose file names the transfers use
TransferRequest(inp) == Request("", "root", inp.impl, "", Absent, NoParams)

HashFile(impl, body) ==
    IF impl = "root_ca" THEN hash_hash_file(body) ELSE concourse_hash_file(body)

UploadTo(impl, store, key, checksum, body) ==
    IF impl = "root_ca"
    THEN aws_upload_s3_object_to_path(store, key, checksum, body)
    ELSE upload_s3_object_to_path(store, key, checksum, body)

LibInit ==
    /\ \/ input \in HashListInputs
       \/ input \in KeypairChecksumInputs
       \/ input \in LeafOutInputs
       \/ input \in TransferInputs
       \/ input \in LeafObjectsInputs
       \/ input \in VersionsInputs
    /\ s3 = [k \in S3Keys |-> NoObject]
    /\ pc = [i \in Inv |->
                CASE i \in Writers(input) -> "upload_certificate"
                  [] i \in Readers(input) -> "download_certificate"
                  [] OTHER -> "idle"]
    /\ req = [i \in Inv |-> NoRequest]
    /\ loc = [i \in Inv |-> NoLocals]
    /\ files = [i \in Inv |->
                   IF i \in Writers(input)
                   THEN [EmptyDir EXCEPT
                           ![CertificateName(TransferRequest(input))] =
                               input.arg[i].certificate,
                           ![PrivateKeyName(TransferRequest(input))] =
                               input.arg[i].private_key]
                   ELSE EmptyDir]
    /\ events = [i \in Inv |-> <<>>]
    /\ out = [i \in Inv |-> <<>>]
    /\ err = [i \in Inv |-> NoError]
    /\ result = <<>>
    /\ history = <<>>

\* hash_list of lib/concourse.py, lib/hash.py and lib/common.py on one list
ApplyHashList ==
    /\ input.fn = "hash_list"
    /\ result = <<>>
    /\ result' = <<[concourse |-> concourse_hash_list(input.arg),
                    hash |-> hash_hash_list(input.arg),
                    common |-> common_hash_list(input.arg)]>>
    /\ UNCHANGED <<s3, pc, req, loc, files, events, out, err, input, history>>

\* _get_keypair_checksum on two checksums, in both orders
ApplyGetKeypairChecksum ==
    /\ input.fn = "get_keypair_checksum"
    /\ result = <<>>
    /\ result' = <<[forward |-> get_keypair_checksum(input.arg[1], input.arg[2]),
                    backward |-> get_keypair_checksum(input.arg[2], input.arg[1])]>>
    /\ UNCHANGED <<s3, pc, req, loc, files, events, out, err, input, history>>

\* The output payload of leaf_out for a certificate with the hosts given
ApplyLeafOutPayload ==
    /\ input.fn = "leaf_out"
    /\ result = <<>>
    /\ \E leaf_name \in LeafNames :
          LET r == Request("out", "leaf", "concourse", leaf_name, Absent, NoParams)
              certificate_checksum ==
                  concourse_hash_file(SeedCertificate(FilePrefix("leaf", leaf_name)))
              private_key_checksum ==
                  concourse_hash_file(SeedPrivateKey(FilePrefix("leaf", leaf_name)))
              l == [NoLocals EXCEPT
                      !.certificate_checksum = certificate_checksum,
                      !.private_key_checksum = private_key_checksum,
                      !.common_name = "common_name",
                      !.hosts = input.arg]
          IN  result' = <<create_payload(
                            get_keypair_checksum(certificate_checksum,
                                                 private_key_checksum),
                            OutMetadata(r, l))>>
    /\ UNCHANGED <<s3, pc, req, loc, files, events, out, err, input, history>>

\* A writer's next upload: the file, tagged with the hash of the file; ok is
\* whether upload_file returns.
UploadFile(i) ==
    /\ input.fn \in {"round_trip", "race"}
    /\ pc[i] \in {"upload_certificate", "upload_private_key"}
    /\ \E ok \in BOOLEAN :
          LET name == IF pc[i] = "upload_certificate"
                      THEN CertificateName(TransferRequest(input))
                      ELSE PrivateKeyName(TransferRequest(input))
              key == get_s3_object(name)
              checksum == HashFile(input.impl, files[i][name])
          IN  /\ s3' = IF ok
                       THEN UploadTo(input.impl, s3, key, checksum, files[i][name])
                       ELSE s3
              /\ history' = IF ok
                            THEN Append(history, [ev |-> "upload", key |-> key, by |-> i])
                            ELSE history
              /\ events' = [events EXCEPT
                              ![i] = Append(@, Event("upload", key, checksum, ok))]
              /\ pc' = [pc EXCEPT
                          ![i] = IF ~ok THEN "failed"
                                 ELSE IF pc[i] = "upload_certificate"
                                 THEN "upload_private_key"
                                 ELSE "done"]
              /\ err' = [err EXCEPT
                           ![i] = IF ok THEN @
                                  ELSE Exception("S3UploadFailedError",
                                                 "upload_file", pc[i])]
    /\ UNCHANGED <<req, loc, files, out, input, result>>

\* The bucket's owner replaces the body of an object no reader has asked for
\* yet; the metadata stays.
AlterObject(key) ==
    /\ input.fn = "round_trip"
    /\ s3[key].exists
    /\ \A n \in 1..Len(history) : ~(history[n].ev = "alter" /\ history[n].key = key)
    /\ \A j \in Readers(input) :
           \A n \in 1..Len(events[j]) : events[j][n].key # key
    /\ s3' = [s3 EXCEPT ![key].body = @ \o "~"]
    /\ history' = Append(history, [ev |-> "alter", key |-> key, by |-> 0])
    /\ UNCHANGED <<pc, req, loc, files, events, out, err, input, result>>

\* A reader's next download, once the writer is done, verified against the
\* checksum the writer tagged the object with.
DownloadFile(j) ==
    /\ input.fn = "round_trip"
    /\ pc[j] \in {"download_certificate", "download_private_key"}
    /\ \A i \in Writers(input) : pc[i] = "done"
    /\ LET name == IF pc[j] = "download_certificate"
                   THEN CertificateName(TransferRequest(input))
                   ELSE PrivateKeyName(TransferRequest(input))
           key == get_s3_object(name)
           expected == HashFile(input.impl, files[1][name])
           r == Download(input.impl, s3[key], expected)
       IN  /\ files' = [files EXCEPT ![j][get_repository_file_path("", name)] = r.value]
           /\ events' = [events EXCEPT
                           ![j] = Append(@, Event("download", key, expected, r.ok))]
           /\ pc' = [pc EXCEPT
                       ![j] = IF ~r.ok THEN "failed"
                              ELSE IF pc[j] = "download_certificate"
                              THEN "download_private_key"
                              ELSE "done"]
           /\ err' = [err EXCEPT
                        ![j] = IF r.ok THEN @ ELSE Exception(r.exc, r.msg, pc[j])]
    /\ UNCHANGED <<s3, req, loc, out, input, result, history>>

\* The two storage keys a leaf handler builds from source.leaf_name
LeafObjects(leaf_name) ==
    { get_s3_object(CertificateFileName(FilePrefix("leaf", leaf_name))),
      get_s3_object(PrivateKeyFileName(FilePrefix("leaf", leaf_name))) }

\* The storage keys of the root and intermediate bundles
CaObjects ==
    { get_s3_object(ROOT_CA_CERTIFICATE_FILE_NAME),
      get_s3_object(ROOT_CA_PRIVATE_KEY_FILE_NAME),
      get_s3_object(INTERMEDIATE_CA_CERTIFICATE_FILE_NAME),
      get_s3_object(INTERMEDIATE_CA_PRIVATE_KEY_FILE_NAME) }

\* The storage objects of two leaves
ApplyLeafObjects ==
    /\ input.fn = "leaf_objects"
    /\ result = <<>>
    /\ result' = <<[first |-> LeafObjects(input.arg[1]),
                    second |-> LeafObjects(input.arg[2])]>>
    /\ UNCHANGED <<s3, pc, req, loc, files, events, out, err, input, history>>

\* _get_keypair_checksum on two pairs of checksums
ApplyVersions ==
    /\ input.fn = "versions"
    /\ result = <<>>
    /\ result' = <<[first |-> get_keypair_checksum(input.arg[1], input.arg[2]),
                    second |-> get_keypair_checksum(input.arg[3], input.arg[4])]>>
    /\ UNCHANGED <<s3, pc, req, loc, files, events, out, err, input, history>>

\* A Check once the racing writers have finished: the version of the two
\* stored checksums, or the failure of the read that failed.
CheckAfterRace ==
    /\ input.fn = "race"
    /\ \A i \in Inv : pc[i] \in {"done", "failed"}
    /\ result = <<>>
    /\ LET c == GetChecksum(input.impl,
                   s3[get_s3_object(CertificateName(TransferRequest(input)))])
           k == GetChecksum(input.impl,
                   s3[get_s3_object(PrivateKeyName(TransferRequest(input)))])
       IN  result' = << IF ~c.ok THEN c
                        ELSE IF ~k.ok THEN k
                        ELSE Returned(IF input.impl = "root_ca"
                                      THEN hash_hash_list(<<c.value, k.value>>)
                                      ELSE get_keypair_checksum(c.value, k.value)) >>
    /\ UNCHANGED <<s3, pc, req, loc, files, events, out, err, input, history>>

LibNext ==
    \/ CheckAfterRace
    \/ ApplyLeafObjects
    \/ ApplyVersions
    \/ ApplyHashList
    \/ ApplyGetKeypairChecksum
    \/ ApplyLeafOutPayload
    \/ \E i \in Inv : UploadFile(i)
    \/ \E key \in S3Keys : AlterObject(key)
    \/ \E j \in Inv : DownloadFile(j)

LibSpec == LibInit /\ [][LibNext]_vars


(***************************************************************************)
(* Properties                                                              *)
(***************************************************************************)
Ins == {i \in Inv : req[i].op = "in"}

Outs == {i \in Inv : req[i].op = "out"}

Checks == {i \in Inv : req[i].op = "check"}

\* The handlers of lib/concourse.py
ConcourseOuts == {i \in Outs : req[i].impl = "concourse"}

Ended(i) == pc[i] \in {"done", "failed"}

\* The positions in i's log of the events of one kind
EventsOf(i, ev) == {n \in 1..Len(events[i]) : events[i][n].ev = ev}

\* A call on key of kind ev returned normally before position n of i's log
OkBefore(i, ev, key, n) ==
    \E m \in 1..(n - 1) :
        /\ events[i][m].ev = ev
        /\ events[i][m].key = key
        /\ events[i][m].ok

OkUploads(i) == {n \in EventsOf(i, "upload") : events[i][n].ok}

\* The create and renew operations of the PKI engine
LifecycleFunctions ==
    {CreateFunction(level) : level \in Levels}
    \cup {RenewFunction(level) : level \in Levels}

LifecycleCalls(i) ==
    {n \in EventsOf(i, "pki") : events[i][n].arg \in LifecycleFunctions}

PkiSucceeded(i) == \E n \in LifecycleCalls(i) : events[i][n].ok

OwnCertificateKey(i) == get_s3_object(CertificateName(req[i]))

OwnPrivateKeyKey(i) == get_s3_object(PrivateKeyName(req[i]))

VersionUnavailable(e) ==
    e.exc = "ValueError" /\ e.msg = "requested checksum is unavailable"

InvalidAction(e) ==
    e.exc = "ValueError" /\ e.msg = "action must be 'create' or 'renew'"

\* A stored object or its checksum attribute is missing
NotFound(e) == e.exc \in {"KeyError", "ClientError"}

IntegrityMismatch(e) ==
    e.exc = "ValueError"
    /\ e.msg = "expected checksum does not match file checksum"

ParentSteps ==
    {"out_parent_certificate_checksum", "out_parent_private_key_checksum",
     "out_download_parent_certificate", "out_download_parent_private_key"}

\* The parent bundle could not be fetched and verified
MissingDependency(e) ==
    e.at \in ParentSteps /\ (NotFound(e) \/ IntegrityMismatch(e))

\* C1: for every level and every request, an In whose requested version
\* differs from the version recomputed from the two stored artifact
\* checksums has failed with VersionUnavailable; no download was started and
\* no response was written.
InFailsWhenVersionUnavailable ==
    \A i \in Ins :
        (/\ loc[i].private_key_checksum # Absent
         /\ Sha256HexDigest(loc[i].certificate_checksum
                            \o loc[i].private_key_checksum) # req[i].version)
        => /\ pc[i] = "failed"
           /\ VersionUnavailable(err[i])
           /\ EventsOf(i, "download") = {}
           /\ out[i] = <<>>

\* An In that read both stored checksums and found another version than
\* the one requested.
InFoundAnotherVersion ==
    \E i \in Ins :
        /\ loc[i].private_key_checksum # Absent
        /\ Sha256HexDigest(loc[i].certificate_checksum
                           \o loc[i].private_key_checksum) # req[i].version
        /\ pc[i] = "failed"

\* C2: whenever an In has completed successfully, the version recomputed
\* from the stored checksums it read equals the requested version, which is
\* the version it returned, and every file it downloaded hashes to the
\* artifact checksum that entered that version; whatever an Out on the same
\* level did between its steps.
InDownloadsMatchVersion ==
    \A i \in Ins :
        pc[i] = "done"
        => /\ Sha256HexDigest(loc[i].certificate_checksum
                              \o loc[i].private_key_checksum) = req[i].version
           /\ Len(out[i]) = 1
           /\ out[i][1].version.checksum = req[i].version
           /\ files[i][CertificateName(req[i])] # Absent
              => Sha256HexDigest(files[i][CertificateName(req[i])])
                     = loc[i].certificate_checksum
           /\ files[i][PrivateKeyName(req[i])] # Absent
              => Sha256HexDigest(files[i][PrivateKeyName(req[i])])
                     = loc[i].private_key_checksum

\* An In that downloaded both files and completed, with an Out of the same
\* level that has run its PKI operation.
InCompletedBesideOut ==
    \E i \in Ins, j \in Outs :
        /\ pc[i] = "done"
        /\ files[i][CertificateName(req[i])] # Absent
        /\ files[i][PrivateKeyName(req[i])] # Absent
        /\ req[j].level = req[i].level
        /\ PkiSucceeded(j)

\* The parent bundle of a child-level Out: both stored checksums fetched,
\* then both files downloaded, each hashing to its stored checksum.
ParentVerified(i) ==
    LET certificate == ParentCertificateName(req[i])
        private_key == ParentPrivateKeyName(req[i])
    IN  /\ Len(events[i]) >= 4
        /\ events[i][1] = Event("head", get_s3_object(certificate), "", TRUE)
        /\ events[i][2] = Event("head", get_s3_object(private_key), "", TRUE)
        /\ events[i][3] = Event("download", get_s3_object(certificate),
                                loc[i].parent_certificate_checksum, TRUE)
        /\ events[i][4] = Event("download", get_s3_object(private_key),
                                loc[i].parent_private_key_checksum, TRUE)
        /\ Sha256HexDigest(files[i][certificate])
               = loc[i].parent_certificate_checksum
        /\ Sha256HexDigest(files[i][private_key])
               = loc[i].parent_private_key_checksum

\* C3: an Out at a child level invokes a PKI engine operation only after
\* both the parent certificate and the parent private key had their stored
\* checksums fetched and were downloaded and hash-verified; an Out past
\* the parent steps without that has failed with MissingDependency, with no
\* PKI engine call and no upload.
ChildOutNeedsVerifiedParent ==
    \A i \in ConcourseOuts :
        req[i].level # "root"
        => /\ \A n \in EventsOf(i, "pki") : n > 4 /\ ParentVerified(i)
           /\ (pc[i] \notin ParentSteps /\ ~ParentVerified(i))
              => /\ pc[i] = "failed"
                 /\ MissingDependency(err[i])
                 /\ EventsOf(i, "pki") = {}
                 /\ EventsOf(i, "upload") = {}

\* A child-level Out that failed on its parent bundle, and one that ran a
\* PKI operation after verifying it.
ChildOutsWithAndWithoutParent ==
    \E i \in ConcourseOuts, j \in ConcourseOuts :
        /\ req[i].level # "root"
        /\ pc[i] = "failed"
        /\ MissingDependency(err[i])
        /\ req[j].level # "root"
        /\ EventsOf(j, "pki") # {}

\* The Out requests whose action is renew
Renewals == {i \in Outs : req[i].params.present /\ req[i].params.action = "renew"}

\* Both files of the level's own bundle were downloaded before position n.
OwnBundleDownloadedBefore(i, n) ==
    /\ OkBefore(i, "head", OwnCertificateKey(i), n)
    /\ OkBefore(i, "head", OwnPrivateKeyKey(i), n)
    /\ OkBefore(i, "download", OwnCertificateKey(i), n)
    /\ OkBefore(i, "download", OwnPrivateKeyKey(i), n)

\* C4: an Out with action renew, at every level, invokes no PKI engine
\* operation, inspection or renewal, before both the existing certificate
\* and the existing private key were downloaded and hash-verified against
\* their stored checksums; one that could not download and verify them has
\* failed with no PKI engine call and no upload.
RenewNeedsVerifiedBundle ==
    \A i \in Renewals :
        /\ \A n \in EventsOf(i, "pki") : OwnBundleDownloadedBefore(i, n)
        /\ pc[i] = "out_renew"
           => /\ Sha256HexDigest(files[i][CertificateName(req[i])])
                     = loc[i].certificate_checksum
              /\ Sha256HexDigest(files[i][PrivateKeyName(req[i])])
                     = loc[i].private_key_checksum
        /\ (pc[i] = "failed"
            /\ ~OwnBundleDownloadedBefore(i, Len(events[i]) + 1))
           => /\ EventsOf(i, "pki") = {}
              /\ EventsOf(i, "upload") = {}

\* A root renewal whose renewal operation ran, and a renewal that failed on
\* the existing bundle.
RenewalsWithAndWithoutBundle ==
    \E i \in Renewals, j \in Renewals :
        /\ \E n \in LifecycleCalls(i) : events[i][n].ok
        /\ pc[j] = "failed"
        /\ err[j].at \in {"out_action", "out_renew_private_key_checksum",
                          "out_renew_download_certificate",
                          "out_renew_download_private_key"}
        /\ req[j].impl = "concourse"


\* A failure of the PKI engine's process or of the object store
ExternalToolFailure(e) == e.exc \in {"CalledProcessError", "S3UploadFailedError"}

\* What the object store holds for i's level is the bundle in i's
\* directory, each object tagged with the hash of its body.
StoredBundleIsLocal(i) ==
    LET certificate == s3[OwnCertificateKey(i)]
        private_key == s3[OwnPrivateKeyKey(i)]
    IN  /\ certificate = Tagged(CHECKSUM_METADATA_KEY_NAME,
                                files[i][CertificateName(req[i])])
        /\ private_key = Tagged(CHECKSUM_METADATA_KEY_NAME,
                                files[i][PrivateKeyName(req[i])])

\* C5: every Out with action create or renew whose PKI engine operation
\* succeeded runs to completion: unless the PKI engine or the object store
\* fails on it, it does not fail, and once it has ended both artifacts are
\* uploaded, each tagged with the hash of the local file, and the response
\* carries bundleVersion(certificate checksum, private key checksum) of
\* the two files.
OutCompletesAfterPki ==
    \A i \in Outs :
        (PkiSucceeded(i) /\ Ended(i) /\ ~ExternalToolFailure(err[i]))
        => /\ pc[i] = "done"
           /\ Cardinality(OkUploads(i)) = 2
           /\ Len(out[i]) = 1
           /\ out[i][1].version.checksum =
                  Sha256HexDigest(
                      Sha256HexDigest(files[i][CertificateName(req[i])])
                      \o Sha256HexDigest(files[i][PrivateKeyName(req[i])]))

\* The version a Check of i's level would report
StoredVersion(i) ==
    LET certificate == get_s3_object_checksum(s3[OwnCertificateKey(i)])
        private_key == get_s3_object_checksum(s3[OwnPrivateKeyKey(i)])
    IN  IF certificate.ok /\ private_key.ok
        THEN get_keypair_checksum(certificate.value, private_key.value)
        ELSE Absent

\* C6: round trip across the operations: after an Out whose PKI engine
\* operation succeeded and on which neither the PKI engine nor the object
\* store failed, with no other write to the level's keys, the version a
\* Check reports is the version of the bundle the Out made, and the stored
\* objects pass the verification of an In that requests it.
RoundTripAfterOut ==
    \A i \in Outs :
        (/\ PkiSucceeded(i) /\ Ended(i) /\ ~ExternalToolFailure(err[i])
         /\ \A j \in Inv \ {i} : EventsOf(j, "upload") = {})
        => /\ StoredVersion(i) =
                  Sha256HexDigest(
                      Sha256HexDigest(files[i][CertificateName(req[i])])
                      \o Sha256HexDigest(files[i][PrivateKeyName(req[i])]))
           /\ StoredBundleIsLocal(i)

CreateNeverReadsOwnBundle ==
    \A i \in Outs :
        action_is_create(req[i])
        => \A n \in EventsOf(i, "head") \cup EventsOf(i, "download") :
               events[i][n].key \notin {OwnCertificateKey(i), OwnPrivateKeyKey(i)}

\* An Out with action create whose PKI operation ran while the level's own
\* stored bundle was absent or not intact.
CreateOverUnusableBundle ==
    \E i \in ConcourseOuts :
        /\ action_is_create(req[i])
        /\ PkiSucceeded(i)
        /\ \/ ~s3[OwnCertificateKey(i)].exists
           \/ ~get_s3_object_checksum(s3[OwnPrivateKeyKey(i)]).ok
           \/ Sha256HexDigest(s3[OwnCertificateKey(i)].body)
                  # get_s3_object_checksum(s3[OwnCertificateKey(i)]).value

\* The Out requests whose action is neither create nor renew
InvalidOuts ==
    {i \in ConcourseOuts :
        /\ req[i].params.present
        /\ req[i].params.action \notin {Absent, "create", "renew"}}

\* C9 as stated: an Out at any level whose action is neither create nor
\* renew fails with InvalidAction.
InvalidActionAlwaysReported ==
    \A i \in InvalidOuts : pc[i] = "failed" => InvalidAction(err[i])

\* C9: an Out whose action is neither create nor renew never completes; at
\* the root level, and at a child level once the parent bundle has been
\* fetched and verified, it fails with InvalidAction, and before that it
\* fails with MissingDependency; in every case it invokes no PKI engine
\* create or renew operation, uploads nothing and writes no response.
InvalidActionAfterParent ==
    \A i \in InvalidOuts :
        /\ pc[i] # "done"
        /\ LifecycleCalls(i) = {}
        /\ EventsOf(i, "upload") = {}
        /\ out[i] = <<>>
        /\ pc[i] = "failed"
           => IF req[i].level = "root" \/ ParentVerified(i)
              THEN InvalidAction(err[i])
              ELSE MissingDependency(err[i])

\* An Out at the root and one at a child level that failed with
\* InvalidAction, the latter after verifying its parent bundle.
InvalidActionReported ==
    \E i \in InvalidOuts, j \in InvalidOuts :
        /\ req[i].level = "root"
        /\ pc[i] = "failed"
        /\ InvalidAction(err[i])
        /\ req[j].level # "root"
        /\ ParentVerified(j)
        /\ pc[j] = "failed"
        /\ InvalidAction(err[j])

\* C10: a Check at every level that completed wrote one response, a list
\* of exactly one element whose checksum is bundleVersion(stored
\* certificate checksum, stored private key checksum), whatever version
\* the request carries; a Check that could not read one of the stored
\* checksums failed with NotFound and wrote no response.
CheckReportsStoredVersion ==
    \A i \in Checks :
        /\ pc[i] = "done"
           => /\ EventsOf(i, "head") = {1, 2}
              /\ events[i][1].ok /\ events[i][2].ok
              /\ out[i] = << << [checksum |->
                     Sha256HexDigest(loc[i].certificate_checksum
                                     \o loc[i].private_key_checksum)] >> >>
        /\ pc[i] = "failed"
           => /\ NotFound(err[i])
              /\ ~events[i][Len(events[i])].ok
              /\ out[i] = <<>>
        /\ (Ended(i) /\ \A n \in EventsOf(i, "head") : events[i][n].ok)
           => pc[i] = "done"

\* A Check that completed for a request carrying a stale version, and one
\* that failed.
ChecksDoneAndFailed ==
    \E i \in Checks, j \in Checks :
        /\ pc[i] = "done"
        /\ req[i].version = "stale"
        /\ pc[j] = "failed"
        /\ out[j] = <<>>


LeafIns == {i \in Ins : req[i].level = "leaf"}

OkDownloads(i) == {n \in EventsOf(i, "download") : events[i][n].ok}

\* The metadata of i's response
ResponseMetadata(i) == out[i][1].metadata

HasEntry(metadata, name, value) ==
    \E n \in 1..Len(metadata) : metadata[n] = MetadataEntry(name, value)

\* C11: a leaf In with save_intermediate_ca_certificate set that has
\* completed has read the stored checksum of the intermediate-ca.pem
\* object, downloaded that object, saved it under the file name
\* intermediate-ca.pem with that checksum as its hash, and reports the
\* checksum in the intermediate_ca_certificate metadata.
LeafInFetchesIntermediateCa ==
    \A i \in LeafIns :
        (pc[i] = "done" /\ should_download_intermediate_ca_certificate(req[i]))
        => LET key == get_s3_object("intermediate-ca.pem")
               path == get_repository_file_path(CaDestinationDir(req[i]),
                                                "intermediate-ca.pem")
               checksum == get_s3_object_checksum(s3[key]).value
           IN  /\ OkBefore(i, "head", key, Len(events[i]) + 1)
               /\ OkBefore(i, "download", key, Len(events[i]) + 1)
               /\ files[i][path] # Absent
               /\ Sha256HexDigest(files[i][path]) = checksum
               /\ HasEntry(ResponseMetadata(i),
                           "intermediate_ca_certificate_checksum", checksum)

\* C12: a leaf In never downloads a CA private key: whatever the option
\* flags, the objects it downloads are among the leaf certificate, the leaf
\* private key, the root CA certificate and the intermediate CA
\* certificate, and no CA private key file is in its directory.
LeafInDownloadsNoCaKey ==
    \A i \in LeafIns :
        /\ \A n \in EventsOf(i, "download") :
               events[i][n].key \in
                   { get_s3_object(req[i].leaf_name \o ".pem"),
                     get_s3_object(req[i].leaf_name \o "-key.pem"),
                     get_s3_object("root-ca.pem"),
                     get_s3_object("intermediate-ca.pem") }
        /\ \A path \in LocalPaths :
               files[i][path] # Absent
               => path \notin {get_repository_file_path(dir, name) :
                                  dir \in {"", CA_SUBDIR},
                                  name \in {"root-ca-key.pem",
                                            "intermediate-ca-key.pem"}}

\* A leaf In with every save flag set that has completed.
LeafInSavedEverything ==
    \E i \in LeafIns :
        /\ pc[i] = "done"
        /\ should_download_certificate(req[i])
        /\ should_download_private_key(req[i])
        /\ should_download_root_ca_certificate(req[i])
        /\ should_download_intermediate_ca_certificate(req[i])
        /\ Cardinality(OkDownloads(i)) = 4

\* The descriptions the file metadata entries are named by
ArtifactDescriptions ==
    {"root_ca_certificate", "root_ca_private_key",
     "intermediate_ca_certificate", "intermediate_ca_private_key",
     "leaf_certificate", "leaf_private_key", "certificate", "private_key"}

\* The positions of the file_name entries in a metadata list
FileNameEntries(metadata) ==
    {n \in 1..Len(metadata) :
        \E d \in ArtifactDescriptions : metadata[n].name = d \o "_file_name"}

\* C13: a completed In has returned the requested version, and an artifact
\* has file_name and checksum entries in the response if and only if this
\* invocation downloaded and verified it: the files named are the objects
\* downloaded, and each file_name entry is followed by the checksum the
\* download of that object was verified against.
InMetadataIsDownloads ==
    \A i \in Ins :
        pc[i] = "done"
        => LET metadata == ResponseMetadata(i)
           IN  /\ out[i][1].version.checksum = req[i].version
               /\ {get_s3_object(metadata[n].value) : n \in FileNameEntries(metadata)}
                      = {events[i][n].key : n \in OkDownloads(i)}
               /\ \A n \in FileNameEntries(metadata) :
                      /\ n + 1 <= Len(metadata)
                      /\ \E d \in ArtifactDescriptions :
                             /\ metadata[n].name = d \o "_file_name"
                             /\ metadata[n + 1].name = d \o "_checksum"
                      /\ \E m \in OkDownloads(i) :
                             /\ events[i][m].key = get_s3_object(metadata[n].value)
                             /\ events[i][m].arg = metadata[n + 1].value
               /\ Len(metadata) = 2 * Cardinality(FileNameEntries(metadata))


\* The position in i's log of a renewal call that returned normally
OkRenewalCalls(i) ==
    {n \in EventsOf(i, "pki") :
        events[i][n].arg = RenewFunction(req[i].level) /\ events[i][n].ok}

ChildRenewals == {i \in Renewals \cap ConcourseOuts : req[i].level # "root"}

RootRenewals == {i \in Renewals \cap ConcourseOuts : req[i].level = "root"}

\* C18: an Out with action renew at the intermediate or the leaf level that
\* has verified its parent bundle and its own bundle, and that no failure of
\* cfssl or of the object store has stopped, has invoked the level's renewal
\* operation, uploaded the certificate and the private key and returned a
\* version.
ChildRenewalRenews ==
    \A i \in ChildRenewals :
        ( /\ Ended(i)
          /\ ParentVerified(i)
          /\ OwnBundleDownloadedBefore(i, Len(events[i]) + 1)
          /\ ~ExternalToolFailure(err[i]) )
        => /\ OkRenewalCalls(i) # {}
           /\ pc[i] = "done"
           /\ {events[i][n].key : n \in OkUploads(i)}
                  = {OwnCertificateKey(i), OwnPrivateKeyKey(i)}
           /\ Len(out[i]) = 1

\* C19: a root Out with action renew whose renewal operation returned, and
\* that no failure of cfssl or of the object store has stopped, succeeds,
\* and the stored private key then has the content and the checksum the
\* Out downloaded and verified before the renewal.
RootRenewalKeepsPrivateKey ==
    \A i \in RootRenewals :
        ( /\ Ended(i)
          /\ OkRenewalCalls(i) # {}
          /\ ~ExternalToolFailure(err[i]) )
        => /\ pc[i] = "done"
           /\ \E n \in EventsOf(i, "download") :
                 /\ events[i][n].key = OwnPrivateKeyKey(i)
                 /\ events[i][n].ok
                 /\ s3[OwnPrivateKeyKey(i)]
                        = Object(files[i][PrivateKeyName(req[i])],
                                 {<<CHECKSUM_METADATA_KEY_NAME, events[i][n].arg>>})


\* C14 as stated: for all hex strings a # b, the bundle version of (a, b)
\* is not the bundle version of (b, a).
KeypairChecksumOrderedForAll ==
    (input.fn = "get_keypair_checksum" /\ result # <<>>
        /\ input.arg[1] # input.arg[2])
    => result[1].forward # result[1].backward

\* C14: for all hex strings a # b of the same length, as two SHA-256 hex
\* digests are, the bundle version of (a, b) is not the bundle version of
\* (b, a).
KeypairChecksumOrdered ==
    (input.fn = "get_keypair_checksum" /\ result # <<>>
        /\ input.arg[1] # input.arg[2]
        /\ Len(input.arg[1]) = Len(input.arg[2]))
    => result[1].forward # result[1].backward

\* The bundle version of two different checksums of the same length was
\* computed in both orders.
KeypairChecksumOfTwoDigests ==
    /\ input.fn = "get_keypair_checksum"
    /\ result # <<>>
    /\ input.arg[1] # input.arg[2]
    /\ Len(input.arg[1]) = MaxHexLen
    /\ Len(input.arg[2]) = MaxHexLen
    /\ result[1].forward = Sha256HexDigest(input.arg[1] \o input.arg[2])

\* C15: every implementation of the bundle version (hash_list of
\* lib/hash.py, _hash_list of lib/concourse.py, hash_list of lib/common.py)
\* returns the digest of the concatenation of the list's strings, with no
\* separator, and the three agree.
HashListsAgree ==
    (input.fn = "hash_list" /\ result # <<>>)
    => /\ result[1].concourse = Sha256HexDigest(Join(input.arg))
       /\ result[1].hash = Sha256HexDigest(Join(input.arg))
       /\ result[1].common = Sha256HexDigest(Join(input.arg))

TransferNames ==
    {CertificateName(TransferRequest(input)), PrivateKeyName(TransferRequest(input))}

\* The bucket's owner has altered the object
Altered(key) ==
    \E n \in 1..Len(history) : history[n].ev = "alter" /\ history[n].key = key

\* The positions in the history of the uploads to a key
UploadsTo(key) ==
    {n \in 1..Len(history) : history[n].ev = "upload" /\ history[n].key = key}

Latest(positions) == CHOOSE n \in positions : \A m \in positions : m <= n

\* C16: an object uploaded with the hash of its file carries that hash as
\* its checksum; downloading and verifying it against that checksum
\* succeeds and leaves the uploaded content at the destination, unless the
\* stored content was altered before the download, and then the download
\* fails with IntegrityMismatch.
RoundTripVerifies ==
    input.fn = "round_trip"
    => \A name \in TransferNames :
           LET key == get_s3_object(name)
           IN  /\ (UploadsTo(key) # {} /\ ~Altered(key))
                  => /\ s3[key].body = files[1][name]
                     /\ GetChecksum(input.impl, s3[key])
                            = Returned(HashFile(input.impl, files[1][name]))
               /\ \A j \in Readers(input) :
                      \A n \in EventsOf(j, "download") :
                          events[j][n].key = key
                          => /\ events[j][n].ok <=> ~Altered(key)
                             /\ events[j][n].arg = HashFile(input.impl, files[1][name])
                             /\ events[j][n].ok => files[j][name] = files[1][name]
                             /\ ~events[j][n].ok
                                    => /\ pc[j] = "failed"
                                       /\ IntegrityMismatch(err[j])

\* A reader has downloaded and verified the certificate, and has failed on
\* the private key, which was altered after its upload.
RoundTripDoneAndRefused ==
    /\ input.fn = "round_trip"
    /\ \E j \in Readers(input) :
          /\ pc[j] = "failed"
          /\ Len(events[j]) = 2
          /\ events[j][1].ok
          /\ ~events[j][2].ok
          /\ files[j][CertificateName(TransferRequest(input))]
                 = input.arg[1].certificate
          /\ Altered(get_s3_object(PrivateKeyName(TransferRequest(input))))

IsLeafCertificateEntry(m) ==
    m.name \notin {"leaf_private_key_file_name", "leaf_private_key_checksum"}

OneResponseAsLastStep ==
    \A i \in Inv :
        /\ Len(out[i]) <= 1
        /\ Cardinality(EventsOf(i, "write")) = Len(out[i])
        /\ pc[i] = "failed" => (out[i] = <<>> /\ err[i] # NoError)
        /\ out[i] # <<>>
              => /\ pc[i] = "done"
                 /\ err[i] = NoError
                 /\ events[i][Len(events[i])].ev = "write"
        /\ pc[i] = "done" => Len(out[i]) = 1

\* One invocation has written its response after a download, and another
\* has failed at a download, after calls that succeeded, having written
\* nothing.
RespondedAndFailedSilently ==
    \E i \in Inv, j \in Inv :
        /\ pc[i] = "done"
        /\ Len(out[i]) = 1
        /\ OkDownloads(i) # {}
        /\ pc[j] = "failed"
        /\ Len(events[j]) >= 3
        /\ events[j][Len(events[j])].ev = "download"
        /\ out[j] = <<>>

\* The step in which an Out uploads to key: an upload step of that Out that
\* leaves the file it holds for the key, tagged with the file's checksum.
IsUploadOf(i, key) ==
    /\ i \in Outs
    /\ pc[i] \in {"out_upload_certificate", "out_upload_private_key"}
    /\ pc'[i] # pc[i]
    /\ key = get_s3_object(IF pc[i] = "out_upload_certificate"
                           THEN CertificateName(req[i])
                           ELSE PrivateKeyName(req[i]))
    /\ s3'[key].exists

\* C22: storage is changed only by the two uploads of an Out: a step that
\* changes a stored object or its checksum tag is an upload step of an Out
\* to that key, so the steps of Check and In change nothing; and no step
\* removes an object.
StorageChangedOnlyByUploads ==
    [][\A key \in S3Keys :
          /\ s3[key].exists => s3'[key].exists
          /\ s3'[key] # s3[key] => \E i \in Inv : IsUploadOf(i, key)]_vars

\* A Check and an In have completed on a bucket that holds their bundle.
CheckAndInCompleted ==
    \E i \in Checks, j \in Ins :
        /\ pc[i] = "done"
        /\ pc[j] = "done"
        /\ OkDownloads(j) # {}
        /\ s3[OwnCertificateKey(j)].exists
        /\ s3[OwnPrivateKeyKey(j)].exists

ChildOuts == {i \in ConcourseOuts : req[i].level # "root"}

\* C23: a step of an Out at a child level changes no storage key but the
\* two of its own level: the objects and checksum tags of the root bundle
\* (and, for a leaf, of the intermediate bundle) are after the step what
\* they were before it, whether the step succeeds or fails, and a parent
\* object that is missing stays missing.
ChildOutWritesOwnKeysOnly ==
    [][\A i \in Inv :
          (i \in ChildOuts /\ pc'[i] # pc[i])
          => \A key \in S3Keys \ {OwnCertificateKey(i), OwnPrivateKeyKey(i)} :
                 s3'[key] = s3[key]]_vars

\* An intermediate Out has failed for want of the root bundle, which is
\* still missing, and a leaf Out has gone past its parent steps.
ChildOutsWithAndWithoutParentLeft ==
    \E i \in ChildOuts, j \in ChildOuts :
        /\ req[i].level = "intermediate"
        /\ pc[i] = "failed"
        /\ MissingDependency(err[i])
        /\ ~s3[get_s3_object(ParentCertificateName(req[i]))].exists
        /\ req[j].level = "leaf"
        /\ Ended(j)
        /\ ParentVerified(j)


\* The version of a certificate and a private key with the given bodies
VersionOf(certificate, private_key) ==
    Sha256HexDigest(Sha256HexDigest(certificate) \o Sha256HexDigest(private_key))

RaceChecked ==
    /\ input.fn = "race"
    /\ \A i \in Inv : pc[i] = "done"
    /\ result # <<>>

LeafObjectsDisjoint ==
    (input.fn = "leaf_objects" /\ result # <<>> /\ input.arg[1] # input.arg[2])
    => /\ result[1].first \cap result[1].second = {}
       /\ result[1].first \cap CaObjects = {}
       /\ result[1].second \cap CaObjects = {}

\* C28 as stated: for all checksum strings, two pairs of checksums have the
\* same version only if they are the same pair.
VersionsInjectiveForAll ==
    (input.fn = "versions" /\ result # <<>>
        /\ result[1].first = result[1].second)
    => (input.arg[1] = input.arg[3] /\ input.arg[2] = input.arg[4])

\* C28: for all checksum strings in which the two certificate checksums
\* have the same length, as SHA-256 hex digests have, two pairs of
\* checksums have the same version only if they are the same pair.
VersionsInjective ==
    (input.fn = "versions" /\ result # <<>>
        /\ Len(input.arg[1]) = Len(input.arg[3])
        /\ result[1].first = result[1].second)
    => (input.arg[1] = input.arg[3] /\ input.arg[2] = input.arg[4])

\* The versions of two pairs of checksums of the same length that differ
\* in the private key's checksum only were computed, and differ.
VersionsOfTwoBundles ==
    /\ input.fn = "versions"
    /\ result # <<>>
    /\ \A n \in 1..4 : Len(input.arg[n]) = MaxHexLen
    /\ input.arg[1] = input.arg[3]
    /\ input.arg[2] # input.arg[4]
    /\ result[1].first # result[1].second


\* The Outs of lib/concourse.py whose request has no action field, and
\* those whose action is create
NoActionOuts ==
    {i \in ConcourseOuts : ~req[i].params.present \/ req[i].params.action = Absent}

CreateOuts ==
    {i \in ConcourseOuts : req[i].params.present /\ req[i].params.action = "create"}

\* The n-th call of i, without its outcome
Call(i, n) == <<events[i][n].ev, events[i][n].key, events[i][n].arg>>

OkCreateCalls(i) ==
    {n \in EventsOf(i, "pki") :
        events[i][n].arg = CreateFunction(req[i].level) /\ events[i][n].ok}

\* C26: an Out whose request has no action field takes the create branch
\* at every level: it never fails with InvalidAction, never reads its own
\* bundle and never calls a renewal or an inspection before the create
\* operation; once past the action check it has called the level's create
\* operation; and it makes the same calls, with the same end, as an Out with
\* action create on the same level with the same CN, as long as the calls
\* before had the same outcomes.
NoActionIsCreate ==
    \A i \in NoActionOuts :
        /\ ~InvalidAction(err[i])
        /\ OkRenewalCalls(i) = {}
        /\ \A n \in EventsOf(i, "head") \cup EventsOf(i, "download") :
               events[i][n].key \notin {OwnCertificateKey(i), OwnPrivateKeyKey(i)}
        /\ pc[i] \in {"out_finish", "out_upload_certificate",
                      "out_upload_private_key", "done"}
               => OkCreateCalls(i) # {}
        /\ (pc[i] = "failed" /\ err[i].at = "out_finish") => OkCreateCalls(i) # {}
        /\ \A j \in CreateOuts :
               ( /\ req[j].level = req[i].level
                 /\ req[j].leaf_name = req[i].leaf_name
                 /\ req[j].params.CN = req[i].params.CN )
               => /\ \A n \in 1..Len(events[i]) :
                         ( /\ n <= Len(events[j])
                           /\ \A m \in 1..(n - 1) : events[i][m] = events[j][m] )
                         => Call(i, n) = Call(j, n)
                  /\ (Ended(i) /\ Ended(j) /\ events[i] = events[j])
                         => (pc[i] = pc[j] /\ err[i] = err[j])

\* An Out without an action field and an Out with action create, on one
\* level with one CN, have both called the create operation and ended after
\* the same calls.
NoActionAndCreateEnded ==
    \E i \in NoActionOuts, j \in CreateOuts :
        /\ req[j].level = req[i].level
        /\ req[j].params.CN = req[i].params.CN
        /\ Ended(i)
        /\ Ended(j)
        /\ OkCreateCalls(i) # {}
        /\ events[i] = events[j]

\* C29: an intermediate Out with action create gives the PKI engine the
\* caller's CN as the common name, as a leaf create does: the certificate
\* a create operation has written carries exactly params.CN.
CreatePassesCallersCN ==
    \A i \in ConcourseOuts :
        (req[i].level \in {"intermediate", "leaf"} /\ OkCreateCalls(i) # {})
        => files[i][CertificateName(req[i])]
               = NewCertificate(FilePrefix(req[i].level, req[i].leaf_name),
                                req[i].params.CN, i)


\* C27: a completed In whose request has no params, or params without any
\* flag, in every implementation, has downloaded the certificate and
\* nothing else.
InAppliesDefaults ==
    \A i \in Ins :
        ( /\ pc[i] = "done"
          /\ \/ ~req[i].params.present
             \/ /\ req[i].params.save_certificate = Absent
                /\ req[i].params.save_private_key = Absent
                /\ req[i].params.save_root_ca_certificate = Absent
                /\ req[i].params.save_intermediate_ca_certificate = Absent
                /\ req[i].params.save_to_ca_subdir = Absent )
        => /\ {events[i][n].key : n \in OkDownloads(i)} = {OwnCertificateKey(i)}
           /\ files[i][CertificateName(req[i])] # Absent
           /\ files[i][PrivateKeyName(req[i])] = Absent

\* The inspections of the resulting certificate: the calls of
\* get_certificate_info after a create or renew operation returned
PostInspections(i) ==
    {n \in EventsOf(i, "pki") :
        /\ events[i][n].arg = "get_certificate_info"
        /\ \E m \in LifecycleCalls(i) : m < n /\ events[i][m].ok}

\* C30 as stated: when the inspection of the resulting certificate starts,
\* both artifacts have been uploaded and the new bundle is in storage.
UploadsPrecedeInspection ==
    \A i \in ConcourseOuts :
        \A n \in PostInspections(i) :
            /\ OkBefore(i, "upload", OwnCertificateKey(i), n)
            /\ OkBefore(i, "upload", OwnPrivateKeyKey(i), n)

\* C30: in an Out the inspection of the resulting certificate comes
\* before the uploads: when it starts the Out has uploaded nothing, the
\* new bundle is not in storage while the Out has uploaded nothing, and
\* every upload follows an inspection that succeeded.
InspectionPrecedesUploads ==
    \A i \in ConcourseOuts :
        /\ \A n \in PostInspections(i) :
               \A m \in EventsOf(i, "upload") : n < m
        /\ \A m \in EventsOf(i, "upload") :
               \E n \in PostInspections(i) : n < m /\ events[i][n].ok
        /\ (PkiSucceeded(i) /\ OkUploads(i) = {}) => ~StoredBundleIsLocal(i)

\* An Out has inspected the certificate it made, and the bucket does not
\* hold the new bundle.
InspectedBeforeStored ==
    \E i \in ConcourseOuts :
        /\ \E n \in PostInspections(i) : events[i][n].ok
        /\ OkUploads(i) = {}
        /\ ~StoredBundleIsLocal(i)
        /\ files[i][CertificateName(req[i])] # Absent

====
